---------------------------- MODULE Spec2Model ----------------------------
(***************************************************************************)
(* Git File Groups: the group store (GitFileGroupsProvider.addGroup,       *)
(* renameGroup, deleteGroup, moveFilesToGroup, fileRenamed), the partition *)
(* (getGroupedFiles over loadGitFileEntries), the commit orchestrator      *)
(* (commitGroup) and the project file (ProjectStorage).                    *)
(*                                                                         *)
(* A JavaScript string is a sequence of one-character strings, so that     *)
(* trim, split, startsWith and localeCompare are computed, not assumed.    *)
(* Paths are POSIX paths (path.sep = "/").                                 *)
(***************************************************************************)
EXTENDS Integers, Sequences, FiniteSets, TLC

VARIABLES
  groups,        \* GitFileGroupsProvider.groups : string[]
  assignments,   \* GitFileGroupsProvider.assignments : Record<fsPath, group>
  file,          \* what .vscode/git-file-groups.jsonc was last written from
  last,          \* the most recent store call: arguments, state before it, its effects
  workspaceRoot, \* GitFileGroupsProvider.workspaceRoot
  gitExtension,  \* vscode.extensions.getExtension('vscode.git') is there
  repositories,  \* api.repositories: the root fsPath of each repository
  workingTreeChanges, \* repository.state.workingTreeChanges, as fsPaths
  indexChanges,  \* repository.state.indexChanges (the staged files), as fsPaths
  runs,          \* the commitGroup invocations
  part,          \* the latest result of getGroupedFiles
  disk,          \* .vscode/git-file-groups.jsonc as the file system holds it: its text
  loaded,        \* the latest result of ProjectStorage.loadData
  lookup,        \* the loadGitFileEntries invocation: where it is suspended, its locals
  legacy,        \* the two legacy entries of the extension's globalState
  migrations,    \* the migrateFromGlobalState calls made so far, the latest last
  config,        \* the latest result of ProjectStorage.loadConfig
  pending,       \* the fs.promises.writeFile calls of saveData that have not completed
  boot           \* the constructor's initializeStorage: where it is suspended

storeVars == <<groups, assignments, file, last, disk, loaded>>
gitVars == <<workspaceRoot, gitExtension, repositories, workingTreeChanges, indexChanges>>
asyncVars == <<config, pending, boot>>
restVars == <<lookup, legacy, migrations, asyncVars>>
vars == <<groups, assignments, file, last, workspaceRoot, gitExtension,
          repositories, workingTreeChanges, indexChanges, runs, part,
          disk, loaded, lookup, legacy, migrations, config, pending, boot>>

---------------------------------------------------------------------------
(* Bounds *)

\* addGroup is not offered once the list holds MaxGroups names
MaxGroups == 2
\* longest uri list handed to moveFilesToGroup
MaxUris == 2
\* most calls into the git extension that fail during one commitGroup
MaxFailures == 2
\* most writes of the project file that fail
MaxWriteFailures == 1

---------------------------------------------------------------------------
(* Strings *)

\* the JavaScript value undefined: no string has a many-character element
Undefined == <<"undefined">>

\* the characters in use, in the collation order of localeCompare
Alphabet == <<" ", "/", ".", "a", "b", "B", "c", "d", "e", "f", "F", "l",
              "n", "o", "r", "s", "t", "u">>

CharRank(c) == CHOOSE i \in 1..Len(Alphabet) : Alphabet[i] = c

\* String.prototype.localeCompare: negative, zero or positive
RECURSIVE localeCompare(_, _)
localeCompare(a, b) ==
  IF a = <<>> /\ b = <<>> THEN 0
  ELSE IF a = <<>> THEN -1
  ELSE IF b = <<>> THEN 1
  ELSE IF CharRank(Head(a)) < CharRank(Head(b)) THEN -1
  ELSE IF CharRank(Head(a)) > CharRank(Head(b)) THEN 1
  ELSE localeCompare(Tail(a), Tail(b))

RECURSIVE trimStart(_)
trimStart(s) ==
  IF s # <<>> /\ Head(s) = " " THEN trimStart(Tail(s)) ELSE s

RECURSIVE trimEnd(_)
trimEnd(s) ==
  IF s # <<>> /\ s[Len(s)] = " " THEN trimEnd(SubSeq(s, 1, Len(s) - 1)) ELSE s

\* String.prototype.trim
trim(s) == trimEnd(trimStart(s))

\* truthiness of a string-or-undefined value
Truthy(v) == v # Undefined /\ v # <<>>

\* Array.prototype.includes
includes(list, x) == \E i \in 1..Len(list) : list[i] = x

\* Array.prototype.indexOf, 0-based, -1 when absent
indexOf(list, x) ==
  IF includes(list, x)
  THEN (CHOOSE i \in 1..Len(list) :
          list[i] = x /\ \A j \in 1..(i - 1) : list[j] # x) - 1
  ELSE -1

\* insertion of x into a list already ordered by localeCompare, after its equals
RECURSIVE insertSorted(_, _)
insertSorted(list, x) ==
  IF list = <<>> THEN <<x>>
  ELSE IF localeCompare(x, Head(list)) < 0 THEN <<x>> \o list
  ELSE <<Head(list)>> \o insertSorted(Tail(list), x)

\* list.sort((a, b) => a.localeCompare(b)): a stable sort
\* sortByLocale without the sort: the list stays as it was handed in
sortByLocale_unsorted(list) == list

RECURSIVE sortByLocale(_)
sortByLocale(list) ==
  IF list = <<>> THEN <<>>
  ELSE insertSorted(sortByLocale(SubSeq(list, 1, Len(list) - 1)), list[Len(list)])

\* Array.prototype.splice(index, 1), index 0-based
splice1(list, index) ==
  SubSeq(list, 1, index) \o SubSeq(list, index + 2, Len(list))

---------------------------------------------------------------------------
(* Plain objects used as maps *)

EmptyMap == [k \in {} |-> <<>>]

\* obj[key]
Get(m, k) == IF k \in DOMAIN m THEN m[k] ELSE Undefined

\* obj[key] = value
MapSet(m, k, v) == [x \in (DOMAIN m) \cup {k} |-> IF x = k THEN v ELSE m[x]]

\* delete obj[key]
MapDelete(m, k) == [x \in (DOMAIN m) \ {k} |-> m[x]]

---------------------------------------------------------------------------
(* Paths (module path, POSIX) *)

\* s.split("/")
RECURSIVE splitSlash(_)
splitSlash(s) ==
  IF \A i \in 1..Len(s) : s[i] # "/" THEN <<s>>
  ELSE LET i == CHOOSE k \in 1..Len(s) :
                  s[k] = "/" /\ \A j \in 1..(k - 1) : s[j] # "/"
       IN <<SubSeq(s, 1, i - 1)>> \o splitSlash(SubSeq(s, i + 1, Len(s)))

\* segs.join("/")
RECURSIVE joinSlash(_)
joinSlash(segs) ==
  IF segs = <<>> THEN <<>>
  ELSE IF Len(segs) = 1 THEN segs[1]
  ELSE segs[1] \o <<"/">> \o joinSlash(Tail(segs))

\* drops "" and "." segments and resolves ".." against the segments before it
RECURSIVE normalizeSegs(_, _)
normalizeSegs(segs, acc) ==
  IF segs = <<>> THEN acc
  ELSE LET h == Head(segs) IN
       IF h = <<>> \/ h = <<".">> THEN normalizeSegs(Tail(segs), acc)
       ELSE IF h = <<".", ".">>
            THEN normalizeSegs(Tail(segs),
                   IF acc = <<>> THEN acc ELSE SubSeq(acc, 1, Len(acc) - 1))
            ELSE normalizeSegs(Tail(segs), Append(acc, h))

isAbsolute(p) == p # <<>> /\ Head(p) = "/"

\* the working directory of the extension host, against which path.resolve
\* completes a path that is still relative
Cwd == <<"/", "c">>

\* the segments of path.resolve(base, p)
resolveSegs(base, p) ==
  IF isAbsolute(p) THEN normalizeSegs(splitSlash(p), <<>>)
  ELSE IF isAbsolute(base)
       THEN normalizeSegs(splitSlash(base) \o splitSlash(p), <<>>)
       ELSE normalizeSegs(splitSlash(Cwd) \o splitSlash(base) \o splitSlash(p), <<>>)

\* path.resolve(base, p)
pathResolve(base, p) == <<"/">> \o joinSlash(resolveSegs(base, p))

RECURSIVE commonPrefixLen(_, _)
commonPrefixLen(a, b) ==
  IF a = <<>> \/ b = <<>> \/ Head(a) # Head(b) THEN 0
  ELSE 1 + commonPrefixLen(Tail(a), Tail(b))

\* path.relative(from, to)
pathRelative(from, to) ==
  LET f == resolveSegs(Cwd, from)
      t == resolveSegs(Cwd, to)
      n == commonPrefixLen(f, t)
      ups == [i \in 1..(Len(f) - n) |-> <<".", ".">>]
  IN joinSlash(ups \o SubSeq(t, n + 1, Len(t)))

---------------------------------------------------------------------------
(* Names, files and uris *)

\* GitFileGroupsProvider.UNGROUPED
UNGROUPED == <<"d", "e", "f", "a", "u", "l", "t">>

NameB == <<"B">>
NameF == <<"F">>

\* what a caller may type as a group name
RawNames == { <<>>, <<" ">>, NameB, <<" ", "B", " ">>, NameF, UNGROUPED }

\* the folder ProjectStorage was constructed with
StorageRoot == <<"/", "r">>

FileA == <<"/", "r", "/", "a">>
FileB == <<"/", "r", "/", "b">>
Files == {FileA, FileB}

\* vscode.Uri.file(p)
UriFile(p) == [scheme |-> "file", fsPath |-> p]

\* the uris a caller may pass: the changed files and a uri without a path
Uris == {UriFile(f) : f \in Files} \cup {UriFile(<<>>)}

\* the uri lists a caller may pass: distinct uris, in any order
UriLists ==
  {l \in UNION {[1..n -> Uris] : n \in 0..MaxUris} :
     \A i \in DOMAIN l, j \in DOMAIN l : i # j => l[i] # l[j]}

\* GitFileGroupsProvider.toAssignmentKey
toAssignmentKey(uri) ==
  IF ~Truthy(uri.fsPath) THEN Undefined ELSE uri.fsPath

---------------------------------------------------------------------------
(* ProjectStorage *)

\* ProjectStorage.toRelativePath
toRelativePath(absolutePath) ==
  joinSlash(splitSlash(pathRelative(StorageRoot, absolutePath)))

\* ProjectStorage.fromRelativePath
fromRelativePath(relativePath) ==
  pathResolve(StorageRoot, joinSlash(splitSlash(relativePath)))

\* ProjectStorage.normalizeAssignmentsForStorage; the keys are fsPaths, on
\* which toRelativePath is one-to-one
normalizeAssignmentsForStorage(m) ==
  [r \in {toRelativePath(k) : k \in DOMAIN m} |->
     m[CHOOSE k \in DOMAIN m : toRelativePath(k) = r]]

\* ProjectStorage.denormalizeAssignmentsFromStorage
denormalizeAssignmentsFromStorage(m) ==
  [a \in {fromRelativePath(k) : k \in DOMAIN m} |->
     m[CHOOSE k \in DOMAIN m : fromRelativePath(k) = a]]

NoFile == [exists |-> FALSE, groups |-> <<>>, assignments |-> EmptyMap]

\* the file ProjectStorage.saveData writes: JSON.stringify of groups and of
\* the assignments under project-relative keys, the whole file overwritten
savedFile(g, a) ==
  [exists |-> TRUE, groups |-> g,
   assignments |-> normalizeAssignmentsForStorage(a)]

---------------------------------------------------------------------------
(* The text of the project file: JSON.stringify, stripJsonComments and     *)
(* JSON.parse                                                              *)

\* the elements of a set, one after the other (Object.entries goes by
\* insertion order; the text differs with the order, what is parsed from
\* it does not)
RECURSIVE seqOf(_)
seqOf(S) ==
  IF S = {} THEN <<>>
  ELSE LET x == CHOOSE y \in S : TRUE IN <<x>> \o seqOf(S \ {x})

\* the lines joined by sep
RECURSIVE joinWith(_, _)
joinWith(ss, sep) ==
  IF ss = <<>> THEN <<>>
  ELSE IF Len(ss) = 1 THEN ss[1]
  ELSE ss[1] \o sep \o joinWith(Tail(ss), sep)

\* the characters of a string as JSON.stringify writes them between quotes
RECURSIVE escapeChars(_)
escapeChars(str) ==
  IF str = <<>> THEN <<>>
  ELSE (IF Head(str) \in {"\"", "\\"} THEN <<"\\", Head(str)>>
        ELSE IF Head(str) = "\n" THEN <<"\\", "n">>
        ELSE <<Head(str)>>) \o escapeChars(Tail(str))

\* JSON.stringify of a string
quote(str) == <<"\"">> \o escapeChars(str) \o <<"\"">>

KeyGroups == <<"g", "r", "o", "u", "p", "s">>
KeyAssignments == <<"a", "s", "s", "i", "g", "n", "m", "e", "n", "t", "s">>

\* JSON.stringify({groups, assignments}, null, 2): g a list of strings,
\* a a map from strings to strings
stringify(g, a) ==
  LET keys == seqOf(DOMAIN a)
      gText == IF g = <<>> THEN <<"[", "]">>
               ELSE <<"[", "\n">>
                    \o joinWith([i \in DOMAIN g |-> <<" ", " ", " ", " ">> \o quote(g[i])],
                                <<",", "\n">>)
                    \o <<"\n", " ", " ", "]">>
      aText == IF keys = <<>> THEN <<"{", "}">>
               ELSE <<"{", "\n">>
                    \o joinWith([i \in DOMAIN keys |->
                                   <<" ", " ", " ", " ">> \o quote(keys[i]) \o <<":", " ">>
                                     \o quote(a[keys[i]])],
                                <<",", "\n">>)
                    \o <<"\n", " ", " ", "}">>
  IN <<"{", "\n", " ", " ">> \o quote(KeyGroups) \o <<":", " ">> \o gText
       \o <<",", "\n", " ", " ">> \o quote(KeyAssignments) \o <<":", " ">> \o aText
       \o <<"\n", "}">>

\* the least element of a set of positions, 0 if there is none
firstOf(S) == IF S = {} THEN 0 ELSE CHOOSE i \in S : \A j \in S : i <= j

\* the positions of t from i on where "*" "/" stands
blockEnds(t, i) == {j \in i..(Len(t) - 1) : t[j] = "*" /\ t[j + 1] = "/"}

\* content.replace(/\/\*[\s\S]*?\*\//g, ''): the leftmost "/*" that has a
\* "*/" after it goes with everything up to the first such "*/", and so on
\* in what follows
RECURSIVE stripBlockComments(_)
stripBlockComments(t) ==
  LET i == firstOf({k \in 1..(Len(t) - 3) :
                      t[k] = "/" /\ t[k + 1] = "*" /\ blockEnds(t, k + 2) # {}})
  IN IF i = 0 THEN t
     ELSE SubSeq(t, 1, i - 1)
            \o stripBlockComments(SubSeq(t, firstOf(blockEnds(t, i + 2)) + 2, Len(t)))

\* "//" stands at position p of t, at the start of a line
commentAtLineStart(t, p) ==
  /\ p = 1 \/ t[p - 1] = "\n"
  /\ p + 1 <= Len(t)
  /\ t[p] = "/" /\ t[p + 1] = "/"

\* "//" stands after position p of t, which holds none of : " '
commentAfterChar(t, p) ==
  /\ p + 2 <= Len(t)
  /\ t[p] \notin {":", "\"", "'"}
  /\ t[p + 1] = "/" /\ t[p + 2] = "/"

\* the position of the first line end of t from p on, Len(t) + 1 if none
lineEnd(t, p) ==
  IF \E q \in p..Len(t) : t[q] = "\n"
  THEN firstOf({q \in p..Len(t) : t[q] = "\n"})
  ELSE Len(t) + 1

\* content.replace(/(^|[^:"'])\/\/.*$/gm, (m, g1) => g1 ?? ''): the leftmost
\* "//" at the start of a line, or after a character other than : " ',
\* goes with the rest of its line, the character before it stays, and so
\* on from the line end
RECURSIVE stripLineComments(_)
stripLineComments(t) ==
  LET p == firstOf({k \in 1..Len(t) :
                      commentAtLineStart(t, k) \/ commentAfterChar(t, k)})
      kept == IF commentAtLineStart(t, p) THEN p - 1 ELSE p
  IN IF p = 0 THEN t
     ELSE SubSeq(t, 1, kept)
            \o stripLineComments(SubSeq(t, lineEnd(t, kept + 1), Len(t)))

\* ProjectStorage.stripJsonComments
stripJsonComments(content) ==
  stripLineComments(stripBlockComments(content))

\* the values JSON.parse yields from the texts of this model: strings,
\* arrays, objects, null, true and false
JString(str) == [t |-> "string", v |-> str]
JArray(list) == [t |-> "array", v |-> list]
JObject(m) == [t |-> "object", v |-> m]
JNull == [t |-> "null", v |-> <<>>]
JBoolean(b) == [t |-> "boolean", v |-> b]

Whitespace == {" ", "\n", "\t", "\r"}

\* the first position of t from i on that holds no white space
skipWs(t, i) ==
  IF \E j \in i..Len(t) : t[j] \notin Whitespace
  THEN firstOf({j \in i..Len(t) : t[j] \notin Whitespace})
  ELSE Len(t) + 1

\* how many backslashes stand right before position j of t
RECURSIVE backslashesBefore(_, _)
backslashesBefore(t, j) ==
  IF j > 1 /\ t[j - 1] = "\\" THEN 1 + backslashesBefore(t, j - 1) ELSE 0

\* the position of the quote that closes the string opened at position i
\* of t, 0 if none does
stringEnd(t, i) ==
  firstOf({j \in (i + 1)..Len(t) :
             t[j] = "\"" /\ backslashesBefore(t, j) % 2 = 0})

\* what stands between the quotes is a JSON string: no line end or tab as
\* such, and after a backslash one of " \ / n t
RECURSIVE rawOk(_)
rawOk(raw) ==
  IF raw = <<>> THEN TRUE
  ELSE IF Head(raw) \in {"\n", "\t", "\r"} THEN FALSE
  ELSE IF Head(raw) = "\\"
       THEN /\ Len(raw) >= 2
            /\ raw[2] \in {"\"", "\\", "/", "n", "t"}
            /\ rawOk(SubSeq(raw, 3, Len(raw)))
  ELSE rawOk(Tail(raw))

\* the string that stands between the quotes
RECURSIVE unescape(_)
unescape(raw) ==
  IF raw = <<>> THEN <<>>
  ELSE IF Head(raw) = "\\"
       THEN <<IF raw[2] = "n" THEN "\n" ELSE IF raw[2] = "t" THEN "\t" ELSE raw[2]>>
              \o unescape(SubSeq(raw, 3, Len(raw)))
  ELSE <<Head(raw)>> \o unescape(Tail(raw))

\* a parse that ended in a SyntaxError
ParseFail == [ok |-> FALSE, v |-> JNull, next |-> 0]

\* the string that starts with the quote at position i of t
parseString(t, i) ==
  LET e == stringEnd(t, i)
      raw == SubSeq(t, i + 1, e - 1)
  IN IF e = 0 THEN ParseFail
     ELSE IF ~rawOk(raw) THEN ParseFail
     ELSE [ok |-> TRUE, v |-> JString(unescape(raw)), next |-> e + 1]

\* t holds the word w at position i
wordAt(t, i, w) ==
  i + Len(w) - 1 <= Len(t) /\ SubSeq(t, i, i + Len(w) - 1) = w

RECURSIVE parseValue(_, _)
RECURSIVE parseElements(_, _, _)
RECURSIVE parseMembers(_, _, _)

\* the value that starts at or after position i0 of t
parseValue(t, i0) ==
  LET i == skipWs(t, i0)
      j == skipWs(t, i + 1)
  IN IF i > Len(t) THEN ParseFail
     ELSE IF t[i] = "\"" THEN parseString(t, i)
     ELSE IF t[i] = "["
          THEN IF j <= Len(t) /\ t[j] = "]"
               THEN [ok |-> TRUE, v |-> JArray(<<>>), next |-> j + 1]
               ELSE parseElements(t, i + 1, <<>>)
     ELSE IF t[i] = "{"
          THEN IF j <= Len(t) /\ t[j] = "}"
               THEN [ok |-> TRUE, v |-> JObject(EmptyMap), next |-> j + 1]
               ELSE parseMembers(t, i + 1, EmptyMap)
     ELSE IF wordAt(t, i, <<"n", "u", "l", "l">>)
          THEN [ok |-> TRUE, v |-> JNull, next |-> i + 4]
     ELSE IF wordAt(t, i, <<"t", "r", "u", "e">>)
          THEN [ok |-> TRUE, v |-> JBoolean(TRUE), next |-> i + 4]
     ELSE IF wordAt(t, i, <<"f", "a", "l", "s", "e">>)
          THEN [ok |-> TRUE, v |-> JBoolean(FALSE), next |-> i + 5]
     ELSE ParseFail

\* the elements of an array from position i of t on, acc before them
parseElements(t, i, acc) ==
  LET r == parseValue(t, i)
      j == skipWs(t, r.next)
  IN IF ~r.ok THEN ParseFail
     ELSE IF j > Len(t) THEN ParseFail
     ELSE IF t[j] = "," THEN parseElements(t, j + 1, Append(acc, r.v))
     ELSE IF t[j] = "]"
          THEN [ok |-> TRUE, v |-> JArray(Append(acc, r.v)), next |-> j + 1]
     ELSE ParseFail

\* the members of an object from position i of t on, acc before them; of
\* two members with one key the later stays
parseMembers(t, i, acc) ==
  LET k0 == skipWs(t, i)
      k == parseString(t, k0)
      c == skipWs(t, k.next)
      r == parseValue(t, c + 1)
      j == skipWs(t, r.next)
      acc1 == MapSet(acc, k.v.v, r.v)
  IN IF k0 > Len(t) \/ t[k0] # "\"" THEN ParseFail
     ELSE IF ~k.ok THEN ParseFail
     ELSE IF c > Len(t) \/ t[c] # ":" THEN ParseFail
     ELSE IF ~r.ok THEN ParseFail
     ELSE IF j > Len(t) THEN ParseFail
     ELSE IF t[j] = "," THEN parseMembers(t, j + 1, acc1)
     ELSE IF t[j] = "}"
          THEN [ok |-> TRUE, v |-> JObject(acc1), next |-> j + 1]
     ELSE ParseFail

\* JSON.parse(text): the value, or a SyntaxError (ok false)
JSONparse(text) ==
  LET r == parseValue(text, 1)
  IN IF r.ok /\ skipWs(text, r.next) > Len(text)
     THEN [ok |-> TRUE, v |-> r.v]
     ELSE [ok |-> FALSE, v |-> JNull]

---------------------------------------------------------------------------
(* ProjectStorage.saveData and ProjectStorage.loadData on the text of the  *)
(* project file                                                            *)

\* the JavaScript value undefined among the values JSON.parse yields
JUndefined == [t |-> "undefined", v |-> <<>>]

\* data[key] of a value that is not null
member(data, key) ==
  IF data.t = "object" /\ key \in DOMAIN data.v THEN data.v[key] ELSE JUndefined

\* a JSON value as the JavaScript value the provider gets: a string as
\* the string it is, any other value as it is
jsOf(j) == IF j.t = "string" THEN j.v ELSE j

Digits == <<"0", "1", "2", "3", "4", "5", "6", "7", "8", "9">>

\* Object.entries(x) of an object or an array (of fewer than ten elements,
\* whose keys are "0", "1", ...), as a map
objectEntries(x) ==
  IF x.t = "object" THEN [k \in DOMAIN x.v |-> jsOf(x.v[k])]
  ELSE [k \in {<<Digits[i]>> : i \in DOMAIN x.v} |->
          jsOf(x.v[CHOOSE i \in DOMAIN x.v : <<Digits[i]>> = k])]

\* loadFailed that lets the error out of loadData
loadFailed_raised ==
  [raised |-> TRUE, groups |-> <<>>, assignments |-> EmptyMap]

\* lines 1731-1734: the catch of loadData logs the error and returns the
\* empty state
loadFailed ==
  [raised |-> FALSE, groups |-> <<>>, assignments |-> EmptyMap]

\* ProjectStorage.loadData on the file d: what it returns, and whether it
\* raised.  readFile rejects on a file that cannot be read, JSON.parse
\* throws a SyntaxError, data.assignments throws a TypeError when data is
\* null and so does Object.entries(null), typeof null being 'object'.
loadData(d) ==
  LET parsed == JSONparse(stripJsonComments(d.text))
      data == parsed.v
      a == member(data, KeyAssignments)
      g == member(data, KeyGroups)
  IN IF ~d.exists THEN [raised |-> FALSE, groups |-> <<>>, assignments |-> EmptyMap]
     ELSE IF ~d.readable THEN loadFailed
     ELSE IF ~parsed.ok THEN loadFailed
     ELSE IF data.t = "null" THEN loadFailed
     ELSE IF a.t = "null" THEN loadFailed
     ELSE [raised |-> FALSE,
           groups |-> IF g.t = "array" THEN [i \in DOMAIN g.v |-> jsOf(g.v[i])]
                      ELSE <<>>,
           assignments |->
             denormalizeAssignmentsFromStorage(
               IF a.t \in {"object", "array"} THEN objectEntries(a) ELSE EmptyMap)]

KeyLinks == <<"l", "i", "n", "k", "s">>

KeyLoggedFeatures ==
  <<"l", "o", "g", "g", "e", "d", "_", "f", "e", "a", "t", "u", "r", "e", "s">>

\* ProjectStorage.loadConfig on the file d: the parsed value, or the empty
\* object when there is no file, when the file cannot be read, when
\* JSON.parse throws and when the value is falsy (null, false, "")
loadConfig(d) ==
  LET parsed == JSONparse(stripJsonComments(d.text))
      data == parsed.v
  IN IF ~d.exists \/ ~d.readable \/ ~parsed.ok THEN JObject(EmptyMap)
     ELSE IF data.t = "null" THEN JObject(EmptyMap)
     ELSE IF data.t = "boolean" /\ ~data.v THEN JObject(EmptyMap)
     ELSE IF data.t = "string" /\ data.v = <<>> THEN JObject(EmptyMap)
     ELSE data

\* getChildren, line 1336: Array.isArray(config.links) ? config.links : []
linkDefinitions(cfg) ==
  IF member(cfg, KeyLinks).t = "array" THEN member(cfg, KeyLinks).v ELSE <<>>

\* provider loadData, lines 904-905: the strings of cfg.logged_features
\* that are not blank, trimmed
loggedFeatures(cfg) ==
  LET f == member(cfg, KeyLoggedFeatures)
  IN IF f.t # "array" THEN {}
     ELSE {trim(f.v[i].v) : i \in {j \in DOMAIN f.v :
                                     f.v[j].t = "string" /\ trim(f.v[j].v) # <<>>}}

\* ProjectStorage.saveData when mkdir and writeFile succeed: the file
\* holds the text of groups and of the assignments under relative keys
\* and nothing else
saveData(g, a) ==
  [exists |-> TRUE, readable |-> TRUE,
   text |-> stringify(g, normalizeAssignmentsForStorage(a)),
   saved |-> TRUE]

---------------------------------------------------------------------------
(* The group store: GitFileGroupsProvider mutators *)

Call(op, a, b, uris) ==
  [op |-> op, a |-> a, b |-> b, uris |-> uris,
   groups0 |-> groups, assignments0 |-> assignments, file0 |-> file]

\* NoOp that emits the data-changed notification on its way out
NoOp_refreshing(call) ==
  /\ last' = [call |-> call, effects |-> <<"refresh">>, failures |-> last.failures]
  /\ UNCHANGED <<groups, assignments, file>>

\* the call returned before touching anything
NoOp(call) ==
  /\ last' = [call |-> call, effects |-> <<>>, failures |-> last.failures]
  /\ UNCHANGED <<groups, assignments, file>>

\* await this.saveData(); this.refresh();  A failed write is logged by
\* ProjectStorage.saveData and thrown again: the promise of saveData
\* rejects, refresh is not reached and the mutator, which has no catch,
\* rejects to its caller ("throw").
SaveAndRefresh(call, g, a, ok) ==
  /\ groups' = g
  /\ assignments' = a
  /\ file' = IF ok THEN savedFile(g, a) ELSE file
  /\ last' = [call |-> call,
              effects |-> IF ok THEN <<"save", "refresh">>
                          ELSE <<"save failed", "throw">>,
              failures |-> last.failures + (IF ok THEN 0 ELSE 1)]

AddGroup(name, ok) ==
  LET trimmed == trim(name)
      call == Call("addGroup", name, <<>>, <<>>)
  IN /\ Len(groups) < MaxGroups
     /\ IF ~Truthy(trimmed) THEN NoOp(call)
        ELSE IF includes(groups, trimmed) THEN NoOp(call)
        ELSE SaveAndRefresh(call, sortByLocale(Append(groups, trimmed)),
                            assignments, ok)

\* every value equal to from becomes to
migrateAssignments(m, from, to) ==
  [k \in DOMAIN m |-> IF m[k] = from THEN to ELSE m[k]]

RenameGroup(oldName, newName, ok) ==
  LET trimmedOld == trim(oldName)
      trimmedNew == trim(newName)
      index == indexOf(groups, trimmedOld)
      call == Call("renameGroup", oldName, newName, <<>>)
  IN IF ~Truthy(trimmedOld) \/ ~Truthy(trimmedNew) \/ trimmedOld = UNGROUPED
     THEN NoOp(call)
     ELSE IF index = -1 THEN NoOp(call)
     ELSE SaveAndRefresh(call,
            sortByLocale([groups EXCEPT ![index + 1] = trimmedNew]),
            migrateAssignments(assignments, trimmedOld, trimmedNew), ok)

\* clearAssignments without the cascade: deleteGroup leaves the assignments
clearAssignments_kept(m, name) == m

\* the entries whose value is name are deleted
clearAssignments(m, name) ==
  [k \in {x \in DOMAIN m : m[x] # name} |-> m[k]]

DeleteGroup(groupName, ok) ==
  LET trimmed == trim(groupName)
      index == indexOf(groups, trimmed)
      call == Call("deleteGroup", groupName, <<>>, <<>>)
  IN IF ~Truthy(trimmed) THEN NoOp(call)
     ELSE IF index = -1 THEN NoOp(call)
     ELSE SaveAndRefresh(call, splice1(groups, index),
                         clearAssignments(assignments, trimmed), ok)

\* applyMove that stops after the first uri
applyMove_first(m, uris, target, isUngrouped) ==
  IF uris = <<>> THEN m
  ELSE LET key == toAssignmentKey(Head(uris))
       IN IF ~Truthy(key) THEN m
          ELSE IF isUngrouped THEN MapDelete(m, key)
          ELSE MapSet(m, key, target)

\* the loop of moveFilesToGroup over uris
RECURSIVE applyMove(_, _, _, _)
applyMove(m, uris, target, isUngrouped) ==
  IF uris = <<>> THEN m
  ELSE LET key == toAssignmentKey(Head(uris))
           m1 == IF ~Truthy(key) THEN m
                 ELSE IF isUngrouped THEN MapDelete(m, key)
                 ELSE MapSet(m, key, target)
       IN applyMove(m1, Tail(uris), target, isUngrouped)

\* isKnownGroup that takes every target for a group
isKnownGroup_any(g, target) == TRUE

\* line 1257: the sentinel, or a name of the groups list
isKnownGroup(g, target) ==
  target = UNGROUPED \/ includes(g, target)

\* moveFilesToGroup that adds a target it does not know to the groups list
MoveFilesToGroup_creating(uris, groupName, ok) ==
  LET target == trim(groupName)
      isUngrouped == target = UNGROUPED
      call == Call("moveFilesToGroup", groupName, <<>>, uris)
  IN IF ~Truthy(target) THEN NoOp(call)
     ELSE SaveAndRefresh(call,
            IF isKnownGroup(groups, target) THEN groups
            ELSE sortByLocale(Append(groups, target)),
            applyMove(assignments, uris, target, isUngrouped), ok)

MoveFilesToGroup(uris, groupName, ok) ==
  LET target == trim(groupName)
      isUngrouped == target = UNGROUPED
      call == Call("moveFilesToGroup", groupName, <<>>, uris)
  IN IF ~Truthy(target) THEN NoOp(call)
     ELSE IF ~isKnownGroup(groups, target) THEN NoOp(call)
     ELSE SaveAndRefresh(call, groups,
                         applyMove(assignments, uris, target, isUngrouped), ok)

FileRenamed(oldUri, newUri, ok) ==
  LET oldKey == toAssignmentKey(oldUri)
      newKey == toAssignmentKey(newUri)
      assigned == Get(assignments, oldKey)
      call == Call("fileRenamed", <<>>, <<>>, <<oldUri, newUri>>)
  IN IF ~Truthy(oldKey) \/ ~Truthy(newKey)
     THEN /\ last' = [call |-> call, effects |-> <<"refresh">>,
                      failures |-> last.failures]
          /\ UNCHANGED <<groups, assignments, file>>
     ELSE IF Truthy(assigned)
     THEN /\ groups' = groups
          /\ assignments' = MapDelete(MapSet(assignments, newKey, assigned), oldKey)
          /\ file' = IF ok THEN savedFile(groups', assignments') ELSE file
          /\ last' = [call |-> call,
                      effects |-> IF ok THEN <<"save", "refresh">>
                                  ELSE <<"save failed", "log", "refresh">>,
                      failures |-> last.failures + (IF ok THEN 0 ELSE 1)]
     ELSE /\ last' = [call |-> call, effects |-> <<"refresh">>,
                      failures |-> last.failures]
          /\ UNCHANGED <<groups, assignments, file>>

---------------------------------------------------------------------------
(* The change source: GitFileGroupsProvider.loadGitFileEntries *)

\* the repository that workingTreeChanges and indexChanges belong to
RepoRoot == <<"/", "r">>

\* a folder inside that repository
SubFolder == <<"/", "r", "/", "s">>

\* String.prototype.toLowerCase
toLowerCase(s) ==
  [i \in 1..Len(s) |-> IF s[i] = "B" THEN "b" ELSE IF s[i] = "F" THEN "f" ELSE s[i]]

\* String.prototype.startsWith
startsWith(s, prefix) ==
  Len(prefix) <= Len(s) /\ SubSeq(s, 1, Len(prefix)) = prefix

\* path.normalize
pathNormalize(p) ==
  LET segs == normalizeSegs(splitSlash(p), <<>>)
      trail == IF p # <<>> /\ p[Len(p)] = "/" /\ segs # <<>> THEN <<"/">> ELSE <<>>
      res == (IF isAbsolute(p) THEN <<"/">> ELSE <<>>) \o joinSlash(segs) \o trail
  IN IF res = <<>> THEN <<".">> ELSE res

normalizeFsPath(p) == toLowerCase(pathNormalize(p))

\* Array.prototype.find over api.repositories: the first root among those
\* at the positions hits, the positions that satisfy the test, or Undefined
findRepository(repos, hits) ==
  IF hits = {} THEN Undefined
  ELSE repos[CHOOSE i \in hits : \A j \in hits : i <= j]

\* lines 1482 and 1499: the repository whose root is the workspace root
findExact(repos, root) ==
  findRepository(repos,
    {i \in 1..Len(repos) : normalizeFsPath(repos[i]) = normalizeFsPath(root)})

\* lines 1485-1488 and 1500-1503: a repository root the workspace root starts with
findPrefix(repos, root) ==
  findRepository(repos,
    {i \in 1..Len(repos) :
       startsWith(normalizeFsPath(root), normalizeFsPath(repos[i]))})

\* the repository loadGitFileEntries settles on when api.repositories is
\* populated and does not change during the call
resolveRepository(repos, root) ==
  IF findExact(repos, root) # Undefined THEN findExact(repos, root)
  ELSE findPrefix(repos, root)

\* fsPath.split(path.sep).pop() || ''
baseName(p) == LET segs == splitSlash(p) IN segs[Len(segs)]

\* GitFileGroupsProvider.toFileNameAndUri for a change that carries a uri
\* of scheme file
toFileNameAndUri(fsPath) ==
  [fileName |-> baseName(fsPath), resourceUri |-> UriFile(fsPath)]

\* the fsPaths of a set of changes in the order git reports them (by path)
RECURSIVE listOf(_)
listOf(S) ==
  IF S = {} THEN <<>>
  ELSE LET m == CHOOSE x \in S : \A y \in S : localeCompare(x, y) <= 0
       IN <<m>> \o listOf(S \ {m})

\* entries.sort((a, b) => a.fileName.localeCompare(b.fileName)), stable
RECURSIVE insertEntry(_, _)
insertEntry(list, e) ==
  IF list = <<>> THEN <<e>>
  ELSE IF localeCompare(e.fileName, Head(list).fileName) < 0 THEN <<e>> \o list
  ELSE <<Head(list)>> \o insertEntry(Tail(list), e)

RECURSIVE sortEntries(_)
sortEntries(list) ==
  IF list = <<>> THEN <<>>
  ELSE insertEntry(sortEntries(SubSeq(list, 1, Len(list) - 1)), list[Len(list)])

\* lines 1517-1558: changes = [...workingTreeChanges, ...indexChanges],
\* one entry per change, sorted by file name
entriesOf(w, x) ==
  LET changes == listOf(w) \o listOf(x)
  IN sortEntries([i \in 1..Len(changes) |-> toFileNameAndUri(changes[i])])

\* the result of loadGitFileEntries with a populated repository list
loadGitFileEntries ==
  IF ~gitExtension THEN <<>>
  ELSE IF resolveRepository(repositories, workspaceRoot) = Undefined THEN <<>>
  ELSE IF resolveRepository(repositories, workspaceRoot) = RepoRoot
       THEN entriesOf(workingTreeChanges, indexChanges)
       ELSE <<>>

---------------------------------------------------------------------------
(* The partition: GitFileGroupsProvider.getGroupedFiles *)

\* a member of Object.prototype, which every object literal inherits
ObjectPrototypeKeys == { <<"c", "o", "n", "s", "t", "r", "u", "c", "t", "o", "r">> }

\* the truthiness of grouped[assigned], grouped being the literal {} with
\* its own keys set by grouped[groupName] = []
groupedHas(grouped, k) == k \in DOMAIN grouped \/ k \in ObjectPrototypeKeys

\* lines 1440-1442
initGrouped(g) == [k \in {g[i] : i \in 1..Len(g)} |-> <<>>]

\* lines 1444-1452, one entry after the other; grouped[assigned].push(entry)
\* throws TypeError when grouped[assigned] is inherited and not an array
RECURSIVE placeEntries(_, _, _)
placeEntries(entries, acc, a) ==
  IF entries = <<>> \/ acc.threw THEN acc
  ELSE LET entry == Head(entries)
           key == toAssignmentKey(entry.resourceUri)
           assigned == IF Truthy(key) THEN Get(a, key) ELSE Undefined
           acc1 == IF Truthy(assigned) /\ groupedHas(acc.grouped, assigned)
                   THEN IF assigned \in DOMAIN acc.grouped
                        THEN [acc EXCEPT !.grouped[assigned] = Append(@, entry)]
                        ELSE [acc EXCEPT !.threw = TRUE]
                   ELSE [acc EXCEPT !.ungrouped = Append(@, entry)]
       IN placeEntries(Tail(entries), acc1, a)

\* getGroupedFiles over given entries, groups and assignments
partitionOf(entries, g, a) ==
  placeEntries(entries, [threw |-> FALSE, ungrouped |-> <<>>, grouped |-> initGrouped(g)], a)

getGroupedFiles == partitionOf(loadGitFileEntries, groups, assignments)

---------------------------------------------------------------------------
(* Initial values *)

RunIds == {1, 2}

\* a commitGroup invocation: where it is suspended, its locals, the index and
\* the working tree as they were when it was called, and the calls it has made
IdleRun ==
  [pc |-> "idle", group |-> <<>>, allChanges |-> <<>>, targets |-> <<>>,
   i |-> 0, message |-> Undefined, trace |-> <<>>,
   index0 |-> {}, working0 |-> {}]

NoPart == [computed |-> FALSE, threw |-> FALSE, ungrouped |-> <<>>, grouped |-> EmptyMap]

NoCall ==
  [call |-> [op |-> "none", a |-> <<>>, b |-> <<>>, uris |-> <<>>,
             groups0 |-> <<>>, assignments0 |-> EmptyMap, file0 |-> NoFile],
   effects |-> <<>>, failures |-> 0]

\* no project file in the file system
NoDisk == [exists |-> FALSE, readable |-> FALSE, text |-> <<>>, saved |-> FALSE]

\* loadGitFileEntries has not been called: the loop counter, the waits
\* made, the repository found, the entries returned, and the workspace
\* root and the repository list the repository was found for
IdleLookup ==
  [pc |-> "idle", attempt |-> 0, waits |-> 0, repository |-> Undefined,
   result |-> <<>>, root0 |-> <<>>, seen |-> <<>>]

\* globalState holds neither 'git-file-groups.groups' nor
\* 'git-file-groups.assignments': get returns the defaults [] and {}
NoLegacy == [groups |-> <<>>, assignments |-> EmptyMap]

\* loadConfig has not been called
NoConfig == [done |-> FALSE, saved |-> FALSE, data |-> <<>>]

\* no writeFile is in flight and none was issued
NoWrites == [inflight |-> {}, issued |-> 0, overlapped |-> FALSE]

\* initializeStorage has completed and no mutator was called before it had;
\* persisted and early are the groups the file held at construction and
\* the names added while the first read of the file was in flight
Booted == [pc |-> "done", persisted |-> <<>>, early |-> {}]

\* loadData has not been called
NoLoad == [done |-> FALSE, raised |-> FALSE, groups |-> <<>>, assignments |-> EmptyMap]

\* a provider constructed on a folder that has no project file
EmptyStore ==
  /\ groups = <<>>
  /\ assignments = EmptyMap
  /\ file = NoFile
  /\ last = NoCall
  /\ disk = NoDisk
  /\ loaded = NoLoad

---------------------------------------------------------------------------
(* Specification of the group store: the mutators called one after the     *)
(* other on a store that starts empty, every write of the file succeeding  *)

SaveOutcomes == {TRUE}

Init ==
  /\ EmptyStore
  /\ workspaceRoot = RepoRoot
  /\ gitExtension = TRUE
  /\ repositories = <<RepoRoot>>
  /\ workingTreeChanges = {}
  /\ indexChanges = {}
  /\ runs = [r \in RunIds |-> IdleRun]
  /\ part = NoPart
  /\ lookup = IdleLookup
  /\ legacy = NoLegacy
  /\ migrations = <<>>
  /\ config = NoConfig
  /\ pending = NoWrites
  /\ boot = Booted

StoreFrame == UNCHANGED <<gitVars, runs, part, disk, loaded, restVars>>

AddGroupCall ==
  \E name \in RawNames, ok \in SaveOutcomes : AddGroup(name, ok) /\ StoreFrame

RenameGroupCall ==
  \E oldName \in RawNames, newName \in RawNames, ok \in SaveOutcomes :
    RenameGroup(oldName, newName, ok) /\ StoreFrame

DeleteGroupCall ==
  \E name \in RawNames, ok \in SaveOutcomes : DeleteGroup(name, ok) /\ StoreFrame

MoveFilesToGroupCall ==
  \E uris \in UriLists, name \in RawNames, ok \in SaveOutcomes :
    MoveFilesToGroup(uris, name, ok) /\ StoreFrame

FileRenamedCall ==
  \E oldUri \in Uris, newUri \in Uris, ok \in SaveOutcomes :
    FileRenamed(oldUri, newUri, ok) /\ StoreFrame

Next ==
  \/ AddGroupCall
  \/ RenameGroupCall
  \/ DeleteGroupCall
  \/ MoveFilesToGroupCall
  \/ FileRenamedCall

Spec == Init /\ [][Next]_vars

---------------------------------------------------------------------------
(* Specification of the group store on a disk that may fail: the same     *)
(* calls, every write of the file succeeding or failing                    *)

\* fs.promises.mkdir and fs.promises.writeFile resolve or reject
WriteOutcomes == BOOLEAN

\* a write may fail while fewer than MaxWriteFailures have
MayFailWrite(ok) == ok \/ last.failures < MaxWriteFailures

\* the names the commands pass: none, or one of two names
FaultNames == {<<>>, NameB, NameF}

AddGroupFaulty ==
  \E name \in FaultNames, ok \in WriteOutcomes :
    MayFailWrite(ok) /\ AddGroup(name, ok) /\ StoreFrame

RenameGroupFaulty ==
  \E oldName \in FaultNames, newName \in FaultNames, ok \in WriteOutcomes :
    MayFailWrite(ok) /\ RenameGroup(oldName, newName, ok) /\ StoreFrame

DeleteGroupFaulty ==
  \E name \in FaultNames, ok \in WriteOutcomes :
    MayFailWrite(ok) /\ DeleteGroup(name, ok) /\ StoreFrame

MoveFilesToGroupFaulty ==
  \E uris \in UriLists, name \in FaultNames, ok \in WriteOutcomes :
    MayFailWrite(ok) /\ MoveFilesToGroup(uris, name, ok) /\ StoreFrame

FileRenamedFaulty ==
  \E oldUri \in Uris, newUri \in Uris, ok \in WriteOutcomes :
    MayFailWrite(ok) /\ FileRenamed(oldUri, newUri, ok) /\ StoreFrame

FaultNext ==
  \/ AddGroupFaulty
  \/ RenameGroupFaulty
  \/ DeleteGroupFaulty
  \/ MoveFilesToGroupFaulty
  \/ FileRenamedFaulty

SpecFaults == Init /\ [][FaultNext]_vars

---------------------------------------------------------------------------
(* Properties of the group store *)

isSorted(list) ==
  \A i \in 1..(Len(list) - 1) : localeCompare(list[i], list[i + 1]) <= 0

\* the arguments of the latest call, as the mutators read them
lastOld == trim(last.call.a)
lastNew == trim(last.call.b)
lastChanged == last.effects # <<>> /\ last.effects # <<"refresh">>

\* C1: every value of the assignments map is a name in the groups list
C1_AssignmentsNameGroups ==
  \A k \in DOMAIN assignments : includes(groups, assignments[k])

\* C1 witness: a group that files were assigned to has just been deleted
C1_Witness ==
  /\ last.call.op = "deleteGroup"
  /\ lastChanged
  /\ \E k \in DOMAIN last.call.assignments0 : last.call.assignments0[k] = lastOld
  /\ assignments # EmptyMap

\* C8: after renameGroup(A, B), A a current group other than the sentinel
\* and B a non-empty name other than A, what pointed at A points at B,
\* nothing points at A, the other assignments are as before, and the groups
\* list holds B, does not hold A and is sorted
C8_RenameCascades ==
  (/\ last.call.op = "renameGroup"
   /\ includes(last.call.groups0, lastOld)
   /\ lastOld # UNGROUPED
   /\ Truthy(lastNew)
   /\ lastNew # lastOld)
  => /\ DOMAIN assignments = DOMAIN last.call.assignments0
     /\ \A k \in DOMAIN assignments :
          /\ last.call.assignments0[k] = lastOld => assignments[k] = lastNew
          /\ last.call.assignments0[k] # lastOld => assignments[k] = last.call.assignments0[k]
          /\ assignments[k] # lastOld
     /\ includes(groups, lastNew)
     /\ ~includes(groups, lastOld)
     /\ isSorted(groups)

\* C9: after deleteGroup(A), A a current group, A is not in the groups
\* list, no assignment has the value A, the assignments to other groups
\* are as before, and the files that were assigned to A are in ungrouped
C9_DeleteClears ==
  (/\ last.call.op = "deleteGroup"
   /\ includes(last.call.groups0, lastOld))
  => /\ ~includes(groups, lastOld)
     /\ \A k \in DOMAIN assignments : assignments[k] # lastOld
     /\ \A k \in DOMAIN last.call.assignments0 :
          last.call.assignments0[k] # lastOld
            => k \in DOMAIN assignments /\ assignments[k] = last.call.assignments0[k]
     /\ \A k \in DOMAIN last.call.assignments0 :
          last.call.assignments0[k] = lastOld => k \notin DOMAIN assignments

\* C10: the entries of the groups list are pairwise distinct
C10_GroupsDistinct ==
  \A i \in 1..Len(groups), j \in 1..Len(groups) : i # j => groups[i] # groups[j]

\* C11: the sentinel 'default' is not in the groups list, and not in the
\* groups array of the file
C11_SentinelExcluded ==
  /\ ~includes(groups, UNGROUPED)
  /\ file.exists => ~includes(file.groups, UNGROUPED)

\* C12: each name of the groups list is less than or equal to its successor
\* under localeCompare
C12_GroupsSorted == isSorted(groups)

\* C12 witness: addGroup has added a name that sorts before the last name
\* of the list
C12_Witness ==
  /\ last.call.op = "addGroup"
  /\ lastChanged
  /\ last.call.groups0 # <<>>
  /\ localeCompare(lastOld, last.call.groups0[Len(last.call.groups0)]) < 0
  /\ Len(groups) = Len(last.call.groups0) + 1

\* the identity keys of the uris of the latest call
lastKeys ==
  {toAssignmentKey(last.call.uris[i]) : i \in DOMAIN last.call.uris} \ {Undefined}

\* the latest call is a moveFilesToGroup whose target is the sentinel or a
\* name of the groups list
lastMoveValid ==
  /\ last.call.op = "moveFilesToGroup"
  /\ lastOld = UNGROUPED \/ includes(last.call.groups0, lastOld)

\* how many times e occurs in the effects of the latest call
effectCount(e) ==
  Cardinality({i \in DOMAIN last.effects : last.effects[i] = e})

\* C13: moveFilesToGroup with a target that is neither the sentinel nor a
\* name of the groups list changes no assignment, writes no file and emits
\* no notification
C13_UnknownTargetRejected ==
  (last.call.op = "moveFilesToGroup" /\ ~lastMoveValid)
  => /\ assignments = last.call.assignments0
     /\ groups = last.call.groups0
     /\ file = last.call.file0
     /\ last.effects = <<>>

\* C13 witness: a non-empty unknown target was given with two uris, one of
\* them of a file that has an assignment
C13_Witness ==
  /\ last.call.op = "moveFilesToGroup"
  /\ ~lastMoveValid
  /\ Truthy(lastOld)
  /\ Cardinality(lastKeys) >= 1
  /\ Len(last.call.uris) = 2
  /\ lastKeys \cap DOMAIN assignments # {}

\* C14: after moveFilesToGroup with a valid target, none of the given
\* identities has an assignment when the target is the sentinel, every one
\* is assigned to the target otherwise; the other assignments are as before
\* and the batch is saved by one save, which holds all of it
C14_MoveAssignsBatch ==
  lastMoveValid
  => /\ \A k \in lastKeys :
          IF lastOld = UNGROUPED THEN k \notin DOMAIN assignments
          ELSE k \in DOMAIN assignments /\ assignments[k] = lastOld
     /\ DOMAIN assignments \ lastKeys = DOMAIN last.call.assignments0 \ lastKeys
     /\ \A k \in DOMAIN assignments \ lastKeys :
          assignments[k] = last.call.assignments0[k]
     /\ effectCount("save") = 1
     /\ file = savedFile(groups, assignments)

\* C14 witness: two files were moved in one call, one of them from another
\* group
C14_Witness ==
  /\ lastMoveValid
  /\ lastOld # UNGROUPED
  /\ Cardinality(lastKeys) = 2
  /\ \E k \in lastKeys :
       /\ k \in DOMAIN last.call.assignments0
       /\ last.call.assignments0[k] # lastOld

\* C15: moveFilesToGroup and fileRenamed leave the groups list as it was,
\* and a call that brought a new name into the list is an addGroup or a
\* renameGroup
C15_AssignmentCreatesNoGroup ==
  /\ last.call.op \in {"moveFilesToGroup", "fileRenamed"}
       => groups = last.call.groups0
  /\ (\E i \in DOMAIN groups : ~includes(last.call.groups0, groups[i]))
       => last.call.op \in {"addGroup", "renameGroup"}

\* C15 witness: files were assigned to one of two groups, and an assigned
\* file was then renamed
C15_Witness ==
  /\ last.call.op = "fileRenamed"
  /\ lastChanged
  /\ Len(groups) = 2
  /\ assignments # EmptyMap

\* the latest call is one of the four mutators of groups and assignments
lastMutator ==
  last.call.op \in {"addGroup", "renameGroup", "deleteGroup", "moveFilesToGroup"}

\* the latest call changed groups or assignments
lastChangedState ==
  groups # last.call.groups0 \/ assignments # last.call.assignments0

\* C16: a call of addGroup, renameGroup, deleteGroup or moveFilesToGroup
\* that changed state made one save of the full state and then emitted one
\* notification, and nothing else
C16_SaveThenNotify ==
  (lastMutator /\ lastChangedState)
  => /\ last.effects = <<"save", "refresh">>
     /\ file = savedFile(groups, assignments)

\* the latest call violated a precondition of its mutator
lastViolates ==
  \/ /\ last.call.op = "addGroup"
     /\ ~Truthy(lastOld) \/ includes(last.call.groups0, lastOld)
  \/ /\ last.call.op = "renameGroup"
     /\ \/ ~Truthy(lastOld)
        \/ ~Truthy(lastNew)
        \/ lastOld = UNGROUPED
        \/ ~includes(last.call.groups0, lastOld)
  \/ /\ last.call.op = "deleteGroup"
     /\ ~includes(last.call.groups0, lastOld)
  \/ /\ last.call.op = "moveFilesToGroup"
     /\ ~Truthy(lastOld)

\* C17: a call that violates a precondition leaves groups, assignments and
\* the file as they were and emits no notification
C17_ViolationChangesNothing ==
  lastViolates
  => /\ groups = last.call.groups0
     /\ assignments = last.call.assignments0
     /\ file = last.call.file0
     /\ last.effects = <<>>

\* C17 witness: renameGroup was called with the sentinel as old name on a
\* store that holds a file, a group named like the sentinel and assignments
C17_Witness ==
  /\ last.call.op = "renameGroup"
  /\ lastOld = UNGROUPED
  /\ Truthy(lastNew)
  /\ includes(groups, UNGROUPED)
  /\ file.exists
  /\ assignments # EmptyMap

\* C19: a call of addGroup, renameGroup, deleteGroup or moveFilesToGroup
\* whose write of the file failed returns without an error to its caller
C19_WriteFailureContained ==
  lastMutator => \A i \in DOMAIN last.effects : last.effects[i] # "throw"

---------------------------------------------------------------------------
(* Specification of the project file: saveData and loadData of            *)
(* ProjectStorage, called on any file and with any groups and assignments  *)

\* longest groups list handed to saveData
MaxStoredGroups == 2

NameSlashes == <<"B", "/", "/", "F">>

\* the names a group may have: addGroup takes any name that is not empty
StoredNames == {NameB, NameF, NameSlashes}

StoredGroupLists == UNION {[1..n -> StoredNames] : n \in 0..MaxStoredGroups}

FileSA == <<"/", "r", "/", "s", "/", "a">>

\* the assignments handed to saveData: absolute paths under the project
\* root as keys
StoredAssignments ==
  UNION {[S -> StoredNames] : S \in SUBSET {FileA, FileSA}}

\* the texts a file may hold that saveData did not write: empty, cut
\* short, of another shape, with comments
DiskTexts ==
  {<<>>,
   \* {"groups": [   (cut short)
   <<"{", "\"", "g", "r", "o", "u", "p", "s", "\"", ":", " ", "[">>,
   \* {"groups": "B", "assignments": {"a": "B"}}
   <<"{", "\"", "g", "r", "o", "u", "p", "s", "\"", ":", " ", "\"",
     "B", "\"", ",", " ", "\"", "a", "s", "s", "i", "g", "n", "m",
     "e", "n", "t", "s", "\"", ":", " ", "{", "\"", "a", "\"", ":",
     " ", "\"", "B", "\"", "}", "}">>,
   \* null
   <<"n", "u", "l", "l">>,
   \* {"groups": ["B"], "assignments": null}
   <<"{", "\"", "g", "r", "o", "u", "p", "s", "\"", ":", " ", "[",
     "\"", "B", "\"", "]", ",", " ", "\"", "a", "s", "s", "i", "g",
     "n", "m", "e", "n", "t", "s", "\"", ":", " ", "n", "u", "l",
     "l", "}">>,
   \* {"groups": ["B", "F"], "assignments": ["B"]}
   <<"{", "\"", "g", "r", "o", "u", "p", "s", "\"", ":", " ", "[",
     "\"", "B", "\"", ",", " ", "\"", "F", "\"", "]", ",", " ", "\"",
     "a", "s", "s", "i", "g", "n", "m", "e", "n", "t", "s", "\"",
     ":", " ", "[", "\"", "B", "\"", "]", "}">>,
   \* {"groups": ["B"], "assignments": {}, "links": [{"B": "u"}], "logged_features": ["v"]}
   <<"{", "\"", "g", "r", "o", "u", "p", "s", "\"", ":", " ", "[", "\"",
     "B", "\"", "]", ",", " ", "\"", "a", "s", "s", "i", "g", "n", "m",
     "e", "n", "t", "s", "\"", ":", " ", "{", "}", ",", " ", "\"", "l",
     "i", "n", "k", "s", "\"", ":", " ", "[", "{", "\"", "B", "\"", ":",
     " ", "\"", "u", "\"", "}", "]", ",", " ", "\"", "l", "o", "g", "g",
     "e", "d", "_", "f", "e", "a", "t", "u", "r", "e", "s", "\"", ":", " ",
     "[", "\"", "v", "\"", "]", "}">>,
   \* a block comment, the groups, a line comment, the assignments
   <<"/", "*", " ", "c", " ", "*", "/", "\n", "{", "\"", "g", "r",
     "o", "u", "p", "s", "\"", ":", " ", "[", "\"", "B", "\"", "]",
     ",", " ", "/", "/", " ", "d", "\n", " ", "\"", "a", "s", "s",
     "i", "g", "n", "m", "e", "n", "t", "s", "\"", ":", " ", "{",
     "\"", "s", "/", "a", "\"", ":", " ", "\"", "B", "\"", "}", "}">>}

\* no file, a file that cannot be read, a file that holds a text
DiskStates ==
  {NoDisk, [exists |-> TRUE, readable |-> FALSE, text |-> <<>>, saved |-> FALSE]}
    \cup {[exists |-> TRUE, readable |-> TRUE, text |-> x, saved |-> FALSE] :
            x \in DiskTexts}

StorageInit ==
  /\ groups \in StoredGroupLists
  /\ assignments \in StoredAssignments
  /\ file = NoFile
  /\ last = NoCall
  /\ disk \in DiskStates
  /\ loaded = NoLoad
  /\ workspaceRoot = RepoRoot
  /\ gitExtension = TRUE
  /\ repositories = <<RepoRoot>>
  /\ workingTreeChanges = {}
  /\ indexChanges = {}
  /\ runs = [r \in RunIds |-> IdleRun]
  /\ part = NoPart
  /\ lookup = IdleLookup
  /\ legacy = NoLegacy
  /\ migrations = <<>>
  /\ config = NoConfig
  /\ pending = NoWrites
  /\ boot = Booted

\* await this.storage.saveData({groups, assignments})
SaveDataCall ==
  /\ disk' = saveData(groups, assignments)
  /\ file' = savedFile(groups, assignments)
  /\ loaded' = NoLoad
  /\ UNCHANGED <<groups, assignments, last, gitVars, runs, part, restVars>>

\* const data = await this.storage.loadData()
LoadDataCall ==
  /\ loaded' = [done |-> TRUE, raised |-> loadData(disk).raised,
                groups |-> loadData(disk).groups,
                assignments |-> loadData(disk).assignments]
  /\ UNCHANGED <<groups, assignments, file, last, disk, gitVars, runs, part, restVars>>

\* config = await this.storage.loadConfig()
LoadConfigCall ==
  /\ config' = [done |-> TRUE, saved |-> disk.saved, data |-> loadConfig(disk)]
  /\ UNCHANGED <<storeVars, gitVars, runs, part, lookup, legacy, migrations,
                 pending, boot>>

StorageNext ==
  \/ SaveDataCall
  \/ LoadDataCall
  \/ LoadConfigCall

SpecStorage == StorageInit /\ [][StorageNext]_vars

---------------------------------------------------------------------------
(* Properties of the project file *)

\* the text of the file, its comments stripped, is a JSON text
parses == JSONparse(stripJsonComments(disk.text)).ok

\* C18: loadData raises no error; it returns the empty state when the file
\* is missing, cannot be read or cannot be parsed, and an empty groups list
\* when the groups of the file are not an array
C18_LoadRecovers ==
  loaded.done
  => /\ ~loaded.raised
     /\ (~disk.exists \/ ~disk.readable \/ ~parses)
          => loaded.groups = <<>> /\ loaded.assignments = EmptyMap
     /\ (/\ disk.exists /\ disk.readable /\ parses
         /\ member(JSONparse(stripJsonComments(disk.text)).v, KeyGroups).t # "array")
          => loaded.groups = <<>>

\* C18 witness: loadData has read a file whose text is cut short
C18_Witness ==
  /\ loaded.done
  /\ disk.exists /\ disk.readable
  /\ disk.text # <<>>
  /\ ~parses

\* C20: loadData after saveData returns the groups list that was saved and
\* a map with the same absolute keys and the same group for each key
C20_SaveLoadRoundTrip ==
  (disk.saved /\ loaded.done)
  => /\ loaded.groups = groups
     /\ loaded.assignments = assignments

---------------------------------------------------------------------------
(* Specification of the partition: getGroupedFiles applied once to groups  *)
(* and assignments as loadData may have read them from a project file      *)
(* (any list of names, any map from files to names) and to any changes     *)

\* longest groups list read from the file
MaxPartGroups == 2

NameConstructor == <<"c", "o", "n", "s", "t", "r", "u", "c", "t", "o", "r">>

PartNames == {NameB, NameF, NameConstructor}

PartGroupLists == UNION {[1..n -> PartNames] : n \in 0..MaxPartGroups}

\* the assignment values of a file: a name, or the empty string
PartAssignments ==
  UNION {[S -> PartNames \cup {<<>>}] : S \in SUBSET Files}

PartInit ==
  /\ groups \in PartGroupLists
  /\ assignments \in PartAssignments
  /\ file = NoFile
  /\ last = NoCall
  /\ disk = NoDisk
  /\ loaded = NoLoad
  /\ workspaceRoot = RepoRoot
  /\ gitExtension = TRUE
  /\ repositories = <<RepoRoot>>
  /\ workingTreeChanges \in SUBSET Files
  /\ indexChanges \in SUBSET Files
  /\ runs = [r \in RunIds |-> IdleRun]
  /\ part = NoPart
  /\ lookup = IdleLookup
  /\ legacy = NoLegacy
  /\ migrations = <<>>
  /\ config = NoConfig
  /\ pending = NoWrites
  /\ boot = Booted

\* const groupFiles = await this.getGroupedFiles()
ComputePartition ==
  /\ ~part.computed
  /\ part' = [computed |-> TRUE,
              threw |-> getGroupedFiles.threw,
              ungrouped |-> getGroupedFiles.ungrouped,
              grouped |-> getGroupedFiles.grouped]
  /\ UNCHANGED <<storeVars, gitVars, runs, restVars>>

PartNext == ComputePartition

SpecPartition == PartInit /\ [][PartNext]_vars

---------------------------------------------------------------------------
(* Properties of the partition *)

\* the number of positions of list that hold e
RECURSIVE count(_, _)
count(list, e) ==
  IF list = <<>> THEN 0
  ELSE (IF Head(list) = e THEN 1 ELSE 0) + count(Tail(list), e)

elems(list) == {list[i] : i \in 1..Len(list)}

\* the buckets of part that hold entry e: UNGROUPED stands for ungrouped
bucketsOf(e) ==
  {g \in DOMAIN part.grouped : count(part.grouped[g], e) > 0}
    \cup (IF count(part.ungrouped, e) > 0 THEN {Undefined} ELSE {})

RECURSIVE sumCounts(_, _)
sumCounts(S, e) ==
  IF S = {} THEN 0
  ELSE LET g == CHOOSE x \in S : TRUE
       IN count(part.grouped[g], e) + sumCounts(S \ {g}, e)

\* C2: getGroupedFiles returns a partition in which every change record is
\* in exactly one bucket, and the keys of grouped are exactly the group names
C2_PartitionTotal ==
  part.computed =>
    /\ ~part.threw
    /\ DOMAIN part.grouped = elems(groups)
    /\ \A e \in elems(loadGitFileEntries) :
         /\ Cardinality(bucketsOf(e)) = 1
         /\ count(part.ungrouped, e) + sumCounts(DOMAIN part.grouped, e)
              = count(loadGitFileEntries, e)
    /\ \A e \in elems(part.ungrouped) : e \in elems(loadGitFileEntries)
    /\ \A g \in DOMAIN part.grouped :
         \A e \in elems(part.grouped[g]) : e \in elems(loadGitFileEntries)

assignedOf(e) == Get(assignments, e.resourceUri.fsPath)

\* C3: a record is in grouped[g] exactly when its key is assigned to g and
\* g is a current group; a record without assignment, or assigned to a name
\* that is not in groups, is in ungrouped, and nothing is thrown; groups
\* [B, F], assignments {a: B} and changes [a, b] give ungrouped [b], B [a], F []
C3_PartitionByAssignment ==
  part.computed =>
    /\ ~part.threw
    /\ \A e \in elems(loadGitFileEntries) :
         /\ \A g \in elems(groups) :
              count(part.grouped[g], e) > 0 <=> assignedOf(e) = g
         /\ count(part.ungrouped, e) > 0 <=> ~includes(groups, assignedOf(e))
    /\ (/\ groups = <<NameB, NameF>>
        /\ assignments = [k \in {FileA} |-> NameB]
        /\ workingTreeChanges = {FileA, FileB}
        /\ indexChanges = {})
       => /\ part.ungrouped = <<toFileNameAndUri(FileB)>>
          /\ part.grouped = [g \in {NameB, NameF} |->
                               IF g = NameB THEN <<toFileNameAndUri(FileA)>> ELSE <<>>]

---------------------------------------------------------------------------
(* The commit orchestrator: GitFileGroupsProvider.commitGroup *)

\* the index and the working tree after repository.revert(paths): the
\* staged changes of the paths go back to the working tree
gitRevert(w, x, paths) == [working |-> w \cup (x \cap paths), index |-> x \ paths]

\* after repository.add(paths): the changes of the paths are staged
gitAdd(w, x, paths) ==
  [working |-> w \ paths, index |-> x \cup (paths \cap (w \cup x))]

\* after repository.commit(message): the staged changes are committed
gitCommit(w, x) == [working |-> w, index |-> {}]

\* one call made by a run, with the index as it was when the call was made
Event(ev, phase, arg, ok) ==
  [ev |-> ev, phase |-> phase, arg |-> arg, ok |-> ok, staged |-> indexChanges]

\* lines 1114-1117: the repository whose root is the workspace root
commitRepository == findExact(repositories, workspaceRoot)

\* entriesForGroup that forgets the group and takes the ungrouped files
entriesForGroup_ungrouped(trimmed, groupFiles) == groupFiles.ungrouped

\* lines 1129-1131 on a partition that was returned
entriesForGroup(trimmed, groupFiles) ==
  IF trimmed = UNGROUPED THEN groupFiles.ungrouped
  ELSE IF trimmed \in DOMAIN groupFiles.grouped THEN groupFiles.grouped[trimmed]
  ELSE <<>>

\* line 1178: the fsPath of every target uri
filePathsToStage(entries) ==
  [k \in 1..Len(entries) |-> entries[k].resourceUri.fsPath]

\* nothingToCommit with the guard left out
nothingToCommit_never(targets) == FALSE

\* line 1137: targetUris.size === 0
nothingToCommit(targets) == Len(targets) = 0

\* loopDone for a loop that is left after its first round
loopDone_first(run) == TRUE

\* the loops over allChanges (lines 1147 and 1197) end after the last change
loopDone(run) == run.i >= Len(run.allChanges)

\* cancelled that only knows the dismissed input box
cancelled_dismissed(message) == message = Undefined

\* line 1194: !message
cancelled(message) == ~Truthy(message)

\* what showInputBox may resolve to: undefined (dismissed), the empty
\* string, or a message
Messages == {Undefined, <<>>, <<"B">>}

\* the calls of a run that failed
RECURSIVE failedCalls(_)
failedCalls(trace) ==
  IF trace = <<>> THEN 0
  ELSE (IF Head(trace).ok THEN 0 ELSE 1) + failedCalls(Tail(trace))

\* n more calls of run r may fail
MayFail(r, n) == failedCalls(runs[r].trace) + n <= MaxFailures

Finish(r, events) ==
  runs' = [runs EXCEPT ![r].pc = "done", ![r].trace = @ \o events]

\* lines 1100-1144: up to the guard
CommitGroupStart(r, groupName) ==
  LET trimmed == trim(groupName)
      fresh == [IdleRun EXCEPT !.group = trimmed,
                               !.index0 = indexChanges,
                               !.working0 = workingTreeChanges]
      allChanges == loadGitFileEntries
      groupFiles == getGroupedFiles
      targets == filePathsToStage(entriesForGroup(trimmed, groupFiles))
  IN /\ runs[r].pc \in {"idle", "done"}
     /\ UNCHANGED <<storeVars, gitVars, part, restVars>>
     /\ IF ~gitExtension
        THEN runs' = [runs EXCEPT ![r] =
                        [fresh EXCEPT !.pc = "done",
                                      !.trace = <<Event("no git extension", "lookup", <<>>, FALSE)>>]]
        ELSE IF commitRepository = Undefined
        THEN runs' = [runs EXCEPT ![r] =
                        [fresh EXCEPT !.pc = "done",
                                      !.trace = <<Event("no repository", "lookup", <<>>, FALSE)>>]]
        ELSE IF groupFiles.threw
                \/ (trimmed # UNGROUPED /\ trimmed \notin DOMAIN groupFiles.grouped
                      /\ trimmed \in ObjectPrototypeKeys)
        THEN runs' = [runs EXCEPT ![r] =
                        [fresh EXCEPT !.pc = "done",
                                      !.trace = <<Event("throw", "guard", <<>>, FALSE)>>]]
        ELSE IF nothingToCommit(targets)
        THEN runs' = [runs EXCEPT ![r] =
                        [fresh EXCEPT !.pc = "done", !.allChanges = allChanges,
                                      !.trace = <<Event("notice", "guard", trimmed, TRUE)>>]]
        ELSE runs' = [runs EXCEPT ![r] =
                        [fresh EXCEPT !.pc = IF allChanges = <<>> THEN "stage" ELSE "unstage",
                                      !.allChanges = allChanges,
                                      !.targets = targets, !.i = 1]]

\* what the revert calls of one round of the unstage loop come to
UnstageOutcomes == {"fsPath", "uri", "failed"}

\* afterUnstage for a loop that a failed revert ends
afterUnstage_aborting(run, outcome) ==
  IF outcome = "failed" \/ loopDone(run) THEN "stage" ELSE "unstage"

\* lines 1147-1175: both catch blocks only log, the loop goes on to the
\* next change and, after the last one, to the add call
afterUnstage(run, outcome) == IF loopDone(run) THEN "stage" ELSE "unstage"

\* lines 1147-1175, one change: revert([fsPath]); when that fails,
\* revert([uri]); when that fails too, the failure is logged
CommitGroupUnstage(r, outcome) ==
  LET run == runs[r]
      p == run.allChanges[run.i].resourceUri.fsPath
      after == IF outcome = "failed"
               THEN [working |-> workingTreeChanges, index |-> indexChanges]
               ELSE gitRevert(workingTreeChanges, indexChanges, {p})
      events == IF outcome = "fsPath"
                THEN <<Event("revert", "unstage", p, TRUE)>>
                ELSE <<Event("revert", "unstage", p, FALSE),
                       Event("revert", "unstage", p, outcome = "uri")>>
  IN /\ run.pc = "unstage"
     /\ MayFail(r, Len(events) - (IF outcome = "failed" THEN 0 ELSE 1))
     /\ workingTreeChanges' = after.working
     /\ indexChanges' = after.index
     /\ runs' = [runs EXCEPT ![r].trace = @ \o events,
                             ![r].i = @ + 1,
                             ![r].pc = afterUnstage(run, outcome)]
     /\ UNCHANGED <<storeVars, workspaceRoot, gitExtension, repositories, part, restVars>>

\* afterStage for a run that a failed add ends
afterStage_aborting(ok) == IF ok THEN "prompt" ELSE "done"

\* lines 1180-1188: the catch block of the add call only logs, the input
\* box is shown next
afterStage(ok) == "prompt"

\* lines 1177-1184: one add call for all the target files
CommitGroupStage(r, ok) ==
  LET run == runs[r]
      paths == elems(run.targets)
      after == IF ok THEN gitAdd(workingTreeChanges, indexChanges, paths)
               ELSE [working |-> workingTreeChanges, index |-> indexChanges]
  IN /\ run.pc = "stage"
     /\ ok \/ MayFail(r, 1)
     /\ workingTreeChanges' = after.working
     /\ indexChanges' = after.index
     /\ runs' = [runs EXCEPT ![r].trace = Append(@, Event("add", "stage", paths, ok)),
                             ![r].pc = afterStage(ok)]
     /\ UNCHANGED <<storeVars, workspaceRoot, gitExtension, repositories, part, restVars>>

\* lines 1186-1194: the input box resolves
CommitGroupPrompt(r, message) ==
  LET run == runs[r]
  IN /\ run.pc = "prompt"
     /\ runs' = [runs EXCEPT ![r].trace = Append(@, Event("prompt", "prompt", message, TRUE)),
                             ![r].message = message,
                             ![r].i = 1,
                             ![r].pc = IF ~cancelled(message) THEN "commit"
                                       ELSE IF run.allChanges = <<>> THEN "done"
                                       ELSE "cancel"]
     /\ UNCHANGED <<storeVars, gitVars, part, restVars>>

\* lines 1197-1205, one change: a single revert([fsPath])
CommitGroupCancel(r, ok) ==
  LET run == runs[r]
      p == run.allChanges[run.i].resourceUri.fsPath
      after == IF ok THEN gitRevert(workingTreeChanges, indexChanges, {p})
               ELSE [working |-> workingTreeChanges, index |-> indexChanges]
  IN /\ run.pc = "cancel"
     /\ ok \/ MayFail(r, 1)
     /\ workingTreeChanges' = after.working
     /\ indexChanges' = after.index
     /\ runs' = [runs EXCEPT ![r].trace = Append(@, Event("revert", "cancel", p, ok)),
                             ![r].i = @ + 1,
                             ![r].pc = IF loopDone(run) THEN "done" ELSE "cancel"]
     /\ UNCHANGED <<storeVars, workspaceRoot, gitExtension, repositories, part, restVars>>

\* refreshAfterCommit that refreshes whatever the commit came to
refreshAfterCommit_always(ok) == <<Event("refresh", "commit", <<>>, TRUE)>>

\* line 1212: this.refresh() is the last statement of the try block, a
\* commit that throws skips it
refreshAfterCommit(ok) ==
  IF ok THEN <<Event("refresh", "commit", <<>>, TRUE)>> ELSE <<>>

\* commitEvents that commits a second time when the first commit failed
commitEvents_retried(message, ok) ==
  IF ok THEN <<Event("commit", "commit", message, TRUE)>> \o refreshAfterCommit(TRUE)
  ELSE <<Event("commit", "commit", message, FALSE),
         Event("commit", "commit", message, TRUE)>> \o refreshAfterCommit(TRUE)

\* lines 1208-1215: one repository.commit(message); the catch block logs
commitEvents(message, ok) ==
  <<Event("commit", "commit", message, ok)>> \o refreshAfterCommit(ok)

\* assignmentsAfterCommit that forgets the assignment of a committed file
assignmentsAfterCommit_cleared(a, ok, paths) ==
  IF ok THEN [k \in DOMAIN a \ paths |-> a[k]] ELSE a

\* lines 1100-1216: commitGroup has no statement that assigns this.groups
\* or this.assignments and none that calls saveData
assignmentsAfterCommit(a, ok, paths) == a

\* lines 1208-1215: the commit, and the refresh that follows a success
CommitGroupCommit(r, ok) ==
  LET run == runs[r]
      after == IF ok THEN gitCommit(workingTreeChanges, indexChanges)
               ELSE [working |-> workingTreeChanges, index |-> indexChanges]
      events == commitEvents(run.message, ok)
  IN /\ run.pc = "commit"
     /\ ok \/ MayFail(r, 1)
     /\ workingTreeChanges' = after.working
     /\ indexChanges' = after.index
     /\ Finish(r, events)
     /\ assignments' = assignmentsAfterCommit(assignments, ok, indexChanges)
     /\ UNCHANGED <<groups, file, last, disk, loaded, workspaceRoot,
                    gitExtension, repositories, part, restVars>>

---------------------------------------------------------------------------
(* Specification of the commit orchestrator: commitGroup invoked on a      *)
(* store loaded from its file, one invocation at a time, nobody else       *)
(* touching the index                                                      *)

\* loadData takes the groups and assignments as the file holds them, an
\* assignment to a name that is no group included
CommitStores ==
  [g : {<<>>, <<NameB>>, <<NameB, NameF>>},
   a : UNION {[S -> {NameB, NameF, NameConstructor}] : S \in SUBSET Files}]

\* what the view passes as group name: the names of the nodes it shows
CommitNames == {NameB, NameF, UNGROUPED}

CommitInit ==
  /\ \E st \in CommitStores :
       /\ groups = st.g
       /\ assignments = st.a
       /\ file = IF st.g = <<>> THEN NoFile ELSE savedFile(st.g, st.a)
  /\ last = NoCall
  /\ disk = NoDisk
  /\ loaded = NoLoad
  /\ workspaceRoot \in {RepoRoot, SubFolder}
  /\ gitExtension \in BOOLEAN
  /\ repositories \in {<<>>, <<RepoRoot>>}
  /\ workingTreeChanges \in SUBSET Files
  /\ indexChanges \in SUBSET Files
  /\ runs = [r \in RunIds |-> IdleRun]
  /\ part = NoPart
  /\ lookup = IdleLookup
  /\ legacy = NoLegacy
  /\ migrations = <<>>
  /\ config = NoConfig
  /\ pending = NoWrites
  /\ boot = Booted

\* the one invocation of this specification
TheRun == 1

CommitStartCall == \E name \in CommitNames : CommitGroupStart(TheRun, name)
CommitUnstageStep == \E outcome \in UnstageOutcomes : CommitGroupUnstage(TheRun, outcome)
CommitStageStep == \E ok \in BOOLEAN : CommitGroupStage(TheRun, ok)
CommitPromptStep == \E message \in Messages : CommitGroupPrompt(TheRun, message)
CommitCancelStep == \E ok \in BOOLEAN : CommitGroupCancel(TheRun, ok)
CommitCommitStep == \E ok \in BOOLEAN : CommitGroupCommit(TheRun, ok)

CommitNext ==
  \/ CommitStartCall
  \/ CommitUnstageStep
  \/ CommitStageStep
  \/ CommitPromptStep
  \/ CommitCancelStep
  \/ CommitCommitStep

SpecCommit == CommitInit /\ [][CommitNext]_vars

---------------------------------------------------------------------------
(* Properties of the commit orchestrator *)

\* the files that were changed when run r was called
changed0(r) == runs[r].working0 \cup runs[r].index0

\* the files of the bucket run r was called for, read off the assignments:
\* the ungrouped files for the sentinel, the files assigned to the group else
bucketFiles(r) ==
  IF runs[r].group = UNGROUPED
  THEN {f \in changed0(r) : ~includes(groups, Get(assignments, f))}
  ELSE {f \in changed0(r) :
          Get(assignments, f) = runs[r].group /\ includes(groups, runs[r].group)}

\* the positions of the trace of run r that hold an event ev
at(r, ev) == {k \in DOMAIN runs[r].trace : runs[r].trace[k].ev = ev}

\* run r found the git extension and its repository
lookedUp(r) ==
  /\ runs[r].pc # "idle"
  /\ \A k \in DOMAIN runs[r].trace : runs[r].trace[k].phase # "lookup"

\* run r got its partition: getGroupedFiles did not throw
partitioned(r) ==
  /\ lookedUp(r)
  /\ at(r, "throw") = {}

\* the fsPath of the j-th record of allChanges of run r
changePath(r, j) == runs[r].allChanges[j].resourceUri.fsPath

\* C4: when every revert and add call of a run succeeded, the index holds
\* exactly the files of the run's bucket at the moment commit is called
C4_CommitStagesBucket ==
  \A k \in at(TheRun, "commit") :
    (\A j \in 1..(k - 1) : runs[TheRun].trace[j].ok)
      => runs[TheRun].trace[k].staged = bucketFiles(TheRun)

\* C4 witness: a commit is called after calls that all succeeded, in a run
\* that found a file of another bucket staged and a file of its own unstaged
C4_Witness ==
  \E k \in at(TheRun, "commit") :
    /\ \A j \in 1..(k - 1) : runs[TheRun].trace[j].ok
    /\ runs[TheRun].index0 \ bucketFiles(TheRun) # {}
    /\ bucketFiles(TheRun) \ runs[TheRun].index0 # {}

\* C5: a run that finds no changed file in its bucket makes no revert, add,
\* prompt or commit call, shows the notice and leaves the index as it was
C5_EmptyBucketGuard ==
  (partitioned(TheRun) /\ bucketFiles(TheRun) = {})
  => /\ runs[TheRun].pc = "done"
     /\ Len(runs[TheRun].trace) = 1
     /\ runs[TheRun].trace[1].ev = "notice"
     /\ at(TheRun, "revert") \cup at(TheRun, "add")
          \cup at(TheRun, "prompt") \cup at(TheRun, "commit") = {}
     /\ indexChanges = runs[TheRun].index0
     /\ workingTreeChanges = runs[TheRun].working0

\* C5 witness: the guard stopped a run that found staged files and changes
\* of other buckets
C5_Witness ==
  /\ partitioned(TheRun)
  /\ bucketFiles(TheRun) = {}
  /\ runs[TheRun].index0 # {}
  /\ runs[TheRun].group # UNGROUPED

\* the run was cancelled at its prompt
wasCancelled(r) ==
  \E k \in at(r, "prompt") : ~Truthy(runs[r].trace[k].arg)

\* C6: a run whose prompt returned no message re-issues one revert for every
\* record of allChanges, in their order, and never calls commit
C6_CancelRollsBack ==
  (runs[TheRun].pc = "done" /\ wasCancelled(TheRun))
  => LET k == CHOOSE x \in at(TheRun, "prompt") : TRUE
         rest == SubSeq(runs[TheRun].trace, k + 1, Len(runs[TheRun].trace))
     IN /\ at(TheRun, "commit") = {}
        /\ Len(rest) = Len(runs[TheRun].allChanges)
        /\ \A j \in DOMAIN rest :
             /\ rest[j].ev = "revert"
             /\ rest[j].phase = "cancel"
             /\ rest[j].arg = changePath(TheRun, j)
        /\ {runs[TheRun].allChanges[j].resourceUri.fsPath :
              j \in DOMAIN runs[TheRun].allChanges} = changed0(TheRun)

\* C6 witness: a cancelled run has finished over several changes, the empty
\* string being the message
C6_Witness ==
  /\ runs[TheRun].pc = "done"
  /\ \E k \in at(TheRun, "prompt") : runs[TheRun].trace[k].arg = <<>>
  /\ Len(runs[TheRun].allChanges) >= 2

\* C7: the add call comes after a revert of every record of allChanges and
\* no revert of the unstage phase comes after it; the prompt comes after
\* the add call; the commit comes after a prompt that returned a message
C7_PhasesInOrder ==
  LET trace == runs[TheRun].trace IN
  /\ \A k \in at(TheRun, "add") :
       /\ \A j \in DOMAIN runs[TheRun].allChanges :
            \E m \in 1..(k - 1) :
              /\ trace[m].ev = "revert"
              /\ trace[m].phase = "unstage"
              /\ trace[m].arg = changePath(TheRun, j)
       /\ \A m \in (k + 1)..Len(trace) : trace[m].phase # "unstage"
  /\ \A k \in at(TheRun, "prompt") : \E m \in 1..(k - 1) : trace[m].ev = "add"
  /\ \A k \in at(TheRun, "commit") :
       \E m \in 1..(k - 1) : trace[m].ev = "prompt" /\ Truthy(trace[m].arg)
  /\ Cardinality(at(TheRun, "add")) <= 1
  /\ Cardinality(at(TheRun, "prompt")) <= 1
  /\ Cardinality(at(TheRun, "commit")) <= 1

\* C7 witness: a commit was called in a run over several changes, one of
\* whose revert calls had failed
C7_Witness ==
  /\ at(TheRun, "commit") # {}
  /\ Len(runs[TheRun].allChanges) >= 2
  /\ \E m \in at(TheRun, "revert") : ~runs[TheRun].trace[m].ok

\* C24: a commit that fails is the last call of its run: nothing is thrown,
\* no revert, add or second commit follows, and the index stays as it was
\* when commit was called
C24_CommitFailureLogged ==
  \A k \in at(TheRun, "commit") :
    ~runs[TheRun].trace[k].ok
      => /\ k = Len(runs[TheRun].trace)
         /\ Cardinality(at(TheRun, "commit")) = 1
         /\ at(TheRun, "throw") = {}
         /\ runs[TheRun].pc = "done"
         /\ indexChanges = runs[TheRun].trace[k].staged

\* C24 witness: the commit failed over a staged file, after an add that
\* succeeded
C24_Witness ==
  \E k \in at(TheRun, "commit") :
    /\ ~runs[TheRun].trace[k].ok
    /\ runs[TheRun].trace[k].staged # {}
    /\ \E m \in at(TheRun, "add") : runs[TheRun].trace[m].ok

\* the revert calls of the unstage phase of run r made with the path p
unstageTries(r, p) ==
  {m \in at(r, "revert") :
     runs[r].trace[m].phase = "unstage" /\ runs[r].trace[m].arg = p}

\* the records of allChanges of run r, among the first n, that have the path p
recordsOf(r, p, n) ==
  {j \in DOMAIN runs[r].allChanges : j <= n /\ changePath(r, j) = p}

\* C25: a run that passed the guard makes a revert call for every record
\* of allChanges it has come to, whichever revert calls failed, and after
\* the last record it goes on to the add call
C25_UnstageBestEffort ==
  LET run == runs[TheRun]
      reached == IF run.pc = "unstage" THEN run.i - 1 ELSE Len(run.allChanges)
  IN run.targets # <<>>
     => /\ \A j \in 1..reached :
             Cardinality(unstageTries(TheRun, changePath(TheRun, j)))
               >= Cardinality(recordsOf(TheRun, changePath(TheRun, j), reached))
        /\ run.pc \notin {"unstage", "stage"} => at(TheRun, "add") # {}

\* C25 witness: both revert calls for the first of several records failed
\* and the add call was made after a revert for the last record
C25_Witness ==
  /\ Len(runs[TheRun].allChanges) >= 2
  /\ at(TheRun, "add") # {}
  /\ ~runs[TheRun].trace[1].ok
  /\ ~runs[TheRun].trace[2].ok
  /\ runs[TheRun].trace[1].arg = changePath(TheRun, 1)
  /\ runs[TheRun].trace[2].arg = changePath(TheRun, 1)
  /\ changePath(TheRun, 2) # changePath(TheRun, 1)
  /\ unstageTries(TheRun, changePath(TheRun, 2)) # {}

\* C26: after an add call that failed the input box is shown, and a run
\* that was given a message calls commit
C26_StageFailureContinues ==
  \A k \in at(TheRun, "add") :
    ~runs[TheRun].trace[k].ok
      => /\ runs[TheRun].pc # "prompt"
              => \E m \in at(TheRun, "prompt") : m > k
         /\ (/\ runs[TheRun].pc = "done"
             /\ \E m \in at(TheRun, "prompt") : Truthy(runs[TheRun].trace[m].arg))
              => \E c \in at(TheRun, "commit") : c > k

\* C26 witness: the add call failed, a message was given and commit was
\* called
C26_Witness ==
  /\ runs[TheRun].pc = "done"
  /\ \E k \in at(TheRun, "add") : ~runs[TheRun].trace[k].ok
  /\ \E m \in at(TheRun, "prompt") : Truthy(runs[TheRun].trace[m].arg)
  /\ at(TheRun, "commit") # {}

\* C27: a run that finds the git extension goes past its repository lookup
\* exactly when loadGitFileEntries finds a repository for the same
\* workspace root and repository list
C27_SameRepositoryRule ==
  (runs[TheRun].pc # "idle" /\ gitExtension)
    => (lookedUp(TheRun)
          <=> resolveRepository(repositories, workspaceRoot) # Undefined)

\* the commit calls of run r that succeeded
committed(r) == {k \in at(r, "commit") : runs[r].trace[k].ok}

\* C28: the notification is emitted once, right after the commit that
\* succeeded, and by no run that ended at the guard, at the prompt or in a
\* failed commit
C28_RefreshAfterCommit ==
  /\ at(TheRun, "refresh") = {k + 1 : k \in committed(TheRun)}
  /\ Cardinality(committed(TheRun)) <= 1
  /\ runs[TheRun].pc # "done" => at(TheRun, "refresh") = {}

\* C28 witness: a run has committed and notified
C28_Witness ==
  /\ runs[TheRun].pc = "done"
  /\ committed(TheRun) # {}
  /\ Cardinality(at(TheRun, "refresh")) = 1

\* C29: after a cancelled run all of whose revert and add calls succeeded
\* the index holds the files it held when the run was called
C29_CancelRestoresIndex ==
  (/\ runs[TheRun].pc = "done"
   /\ wasCancelled(TheRun)
   /\ \A k \in DOMAIN runs[TheRun].trace : runs[TheRun].trace[k].ok)
    => indexChanges = runs[TheRun].index0

---------------------------------------------------------------------------
(* The change source as a process: loadGitFileEntries from one await to    *)
(* the next, the git extension filling api.repositories in between         *)

\* line 1473: attempt < 5
MaxPolls == 5
\* longest api.repositories
MaxRepos == 2

\* a folder beside the repository whose path starts with the repository's
SiblingFolder == <<"/", "r", "s">>

\* the folders a workspace or a repository may be rooted at
LookupRoots == {RepoRoot, SubFolder, SiblingFolder}

RepoLists == UNION {[1..n -> LookupRoots] : n \in 0..MaxRepos}

\* pollAgain for a loop of two more rounds
pollAgain_longer(attempt, repos) == attempt < MaxPolls + 2 /\ Len(repos) = 0

\* line 1473: attempt < 5 && (!api.repositories || api.repositories.length === 0)
pollAgain(attempt, repos) == attempt < MaxPolls /\ Len(repos) = 0

\* lines 1517-1558 for the repository found: the changes of the model are
\* those of the repository at RepoRoot, any other repository has none
entriesFor(repository) ==
  IF repository = RepoRoot THEN entriesOf(workingTreeChanges, indexChanges)
  ELSE <<>>

LookupFrame ==
  UNCHANGED <<storeVars, gitExtension, repositories, workingTreeChanges,
              indexChanges, runs, part, legacy, migrations, asyncVars>>

\* lines 1457-1470: the call, up to api
LoadEntriesStart ==
  /\ lookup.pc \in {"idle", "done"}
  /\ lookup' = [IdleLookup EXCEPT !.pc = IF gitExtension THEN "poll" ELSE "done"]
  /\ UNCHANGED workspaceRoot
  /\ LookupFrame

\* lines 1473-1475: one round of the loop, a wait of 200 ms
LoadEntriesPoll ==
  /\ lookup.pc = "poll"
  /\ pollAgain(lookup.attempt, repositories)
  /\ lookup' = [lookup EXCEPT !.attempt = @ + 1, !.waits = @ + 1]
  /\ UNCHANGED workspaceRoot
  /\ LookupFrame

\* lines 1477-1498 and 1510-1558: the first lookup; a repository found by
\* prefix becomes the workspace root; without a repository the wait of
\* 500 ms begins
LoadEntriesFind ==
  LET exact == findExact(repositories, workspaceRoot)
      repository == resolveRepository(repositories, workspaceRoot)
  IN /\ lookup.pc = "poll"
     /\ ~pollAgain(lookup.attempt, repositories)
     /\ IF repository # Undefined
        THEN /\ lookup' = [lookup EXCEPT !.pc = "done",
                                         !.repository = repository,
                                         !.result = entriesFor(repository),
                                         !.root0 = workspaceRoot,
                                         !.seen = repositories]
             /\ workspaceRoot' = IF exact = Undefined THEN repository
                                 ELSE workspaceRoot
        ELSE /\ lookup' = [lookup EXCEPT !.pc = "retry", !.waits = @ + 1]
             /\ UNCHANGED workspaceRoot
     /\ LookupFrame

\* lines 1499-1558: the second lookup, after the wait; without a
\* repository the call returns []
LoadEntriesRetry ==
  LET repository == resolveRepository(repositories, workspaceRoot)
  IN /\ lookup.pc = "retry"
     /\ lookup' = [lookup EXCEPT !.pc = "done",
                                 !.repository = repository,
                                 !.result = IF repository = Undefined THEN <<>>
                                            ELSE entriesFor(repository),
                                 !.root0 = workspaceRoot,
                                 !.seen = repositories]
     /\ workspaceRoot' = IF repository # Undefined /\ repository # workspaceRoot
                         THEN repository ELSE workspaceRoot
     /\ LookupFrame

\* the git extension finishes opening its repositories
RepositoriesPopulate ==
  /\ repositories = <<>>
  /\ \E list \in RepoLists \ {<<>>} : repositories' = list
  /\ UNCHANGED <<storeVars, workspaceRoot, gitExtension, workingTreeChanges,
                 indexChanges, runs, part, restVars>>

LookupInit ==
  /\ groups = <<>>
  /\ assignments = EmptyMap
  /\ file = NoFile
  /\ last = NoCall
  /\ disk = NoDisk
  /\ loaded = NoLoad
  /\ workspaceRoot \in LookupRoots
  /\ gitExtension \in BOOLEAN
  /\ repositories \in RepoLists
  /\ workingTreeChanges \in SUBSET Files
  /\ indexChanges = {}
  /\ runs = [r \in RunIds |-> IdleRun]
  /\ part = NoPart
  /\ lookup = IdleLookup
  /\ legacy = NoLegacy
  /\ migrations = <<>>
  /\ config = NoConfig
  /\ pending = NoWrites
  /\ boot = Booted

\* the steps of a call that has begun
LookupStep ==
  \/ LoadEntriesPoll
  \/ LoadEntriesFind
  \/ LoadEntriesRetry

LookupNext ==
  \/ LoadEntriesStart
  \/ LookupStep
  \/ RepositoriesPopulate

SpecLookup == LookupInit /\ [][LookupNext]_vars

\* a lookup is due: LoadEntriesFind or LoadEntriesRetry can be taken
\* (each assigns every variable and changes lookup.pc)
lookupDue ==
  \/ lookup.pc = "poll" /\ ~pollAgain(lookup.attempt, repositories)
  \/ lookup.pc = "retry"

\* the timers of setTimeout fire and the call is resumed: weak fairness of
\* the round of the loop, and weak fairness of the two lookups with their
\* enabling condition written out as lookupDue
SpecLookupLive ==
  /\ SpecLookup
  /\ WF_vars(LoadEntriesPoll)
  /\ ([]<>(~lookupDue) \/ []<><<LoadEntriesFind \/ LoadEntriesRetry>>_vars)

---------------------------------------------------------------------------
(* Properties of the change source *)

\* C23: a call makes at most five waits in its loop and one more before
\* its second lookup, a call without a repository returns no entry, and
\* every call that has begun returns
C23_LookupTerminates ==
  /\ [](lookup.waits <= MaxPolls + 1)
  /\ []((lookup.pc = "done" /\ lookup.repository = Undefined)
          => lookup.result = <<>>)
  /\ (lookup.pc \in {"poll", "retry"}) ~> (lookup.pc = "done")

\* C23 witness: a call has returned no entry after all of its waits, the
\* repository list having stayed empty
C23_Witness ==
  /\ lookup.pc = "done"
  /\ lookup.waits = MaxPolls + 1
  /\ lookup.repository = Undefined
  /\ lookup.result = <<>>
  /\ repositories = <<>>
  /\ workingTreeChanges # {}

\* the folder root is the folder of the repository or lies below it
isInside(root, repository) ==
  \/ normalizeFsPath(root) = normalizeFsPath(repository)
  \/ startsWith(normalizeFsPath(root), normalizeFsPath(repository) \o <<"/">>)

\* C30: the repository a call settles on is rooted at the workspace root
\* or at a folder above it, and at the workspace root when the list holds
\* such a repository
C30_RepositoryContainsRoot ==
  (lookup.pc = "done" /\ lookup.repository # Undefined)
    => /\ isInside(lookup.root0, lookup.repository)
       /\ (\E i \in DOMAIN lookup.seen :
             normalizeFsPath(lookup.seen[i]) = normalizeFsPath(lookup.root0))
            => normalizeFsPath(lookup.repository) = normalizeFsPath(lookup.root0)

---------------------------------------------------------------------------
(* The migration: ProjectStorage.migrateFromGlobalState, called by         *)
(* initializeStorage once per activation                                   *)

\* most migrateFromGlobalState calls of one behaviour
MaxMigrations == 3

\* what an earlier version of the extension left in globalState: group
\* names, and assignments under absolute paths
LegacyStates ==
  [groups : {<<>>, <<NameB>>, <<NameB, NameF>>},
   assignments : UNION {[S -> {NameB, NameF}] : S \in SUBSET Files}]

\* nothingToMigrate that finds data whatever globalState holds
nothingToMigrate_never(l) == FALSE

\* line 1758: groups.length === 0 && Object.keys(assignments).length === 0
nothingToMigrate(l) == Len(l.groups) = 0 /\ DOMAIN l.assignments = {}

\* legacyAfter that clears the entries whether or not the file was written
legacyAfter_cleared(l, ok) == NoLegacy

\* lines 1765-1769: the two update(key, undefined) calls follow the awaited
\* saveData; when saveData throws they are skipped
legacyAfter(l, ok) == IF ok THEN NoLegacy ELSE l

\* one call, the write of the project file succeeding (ok) or failing
MigrateFromGlobalState(ok) ==
  LET normalizedAssignments == normalizeAssignmentsForStorage(legacy.assignments)
      found == ~nothingToMigrate(legacy)
      disk1 == IF found /\ ok
               THEN saveData(legacy.groups, normalizedAssignments) ELSE disk
      legacy1 == IF found THEN legacyAfter(legacy, ok) ELSE legacy
  IN /\ Len(migrations) < MaxMigrations
     /\ disk' = disk1
     /\ file' = IF found /\ ok THEN savedFile(legacy.groups, normalizedAssignments)
                ELSE file
     /\ legacy' = legacy1
     /\ migrations' = Append(migrations,
                        [returned |-> found /\ ok, wrote |-> found /\ ok,
                         failed |-> found /\ ~ok,
                         legacy0 |-> legacy, legacy1 |-> legacy1,
                         disk0 |-> disk, disk1 |-> disk1])
     /\ UNCHANGED <<groups, assignments, last, loaded, gitVars, runs, part, lookup,
                    asyncVars>>

\* a project file written by an earlier session
EarlierDisk == saveData(<<NameF>>, [k \in {FileB} |-> NameF])

MigrationInit ==
  /\ groups = <<>>
  /\ assignments = EmptyMap
  /\ file = NoFile
  /\ last = NoCall
  /\ disk \in {NoDisk, EarlierDisk}
  /\ loaded = NoLoad
  /\ workspaceRoot = RepoRoot
  /\ gitExtension = TRUE
  /\ repositories = <<RepoRoot>>
  /\ workingTreeChanges = {}
  /\ indexChanges = {}
  /\ runs = [r \in RunIds |-> IdleRun]
  /\ part = NoPart
  /\ lookup = IdleLookup
  /\ legacy \in LegacyStates
  /\ migrations = <<>>
  /\ config = NoConfig
  /\ pending = NoWrites
  /\ boot = Booted

\* the project file can be written
MigrationCall == MigrateFromGlobalState(TRUE)

MigrationNext == MigrationCall

SpecMigration == MigrationInit /\ [][MigrationNext]_vars

\* the calls so far whose write failed
failedMigrations == {k \in DOMAIN migrations : migrations[k].failed}

\* the write of the project file may fail, MaxWriteFailures times
MigrationCallFaulty ==
  \E ok \in WriteOutcomes :
    /\ ok \/ Cardinality(failedMigrations) < MaxWriteFailures
    /\ MigrateFromGlobalState(ok)

MigrationFaultNext == MigrationCallFaulty

SpecMigrationFaults == MigrationInit /\ [][MigrationFaultNext]_vars

---------------------------------------------------------------------------
(* Properties of the migration *)

\* C21: a call that follows another call finds no legacy data, returns
\* false and writes nothing: the project file and globalState are after it
\* what the first call left
C21_MigrationIdempotent ==
  \A k \in DOMAIN migrations :
    k > 1
      => /\ migrations[k].legacy0 = NoLegacy
         /\ ~migrations[k].returned
         /\ ~migrations[k].wrote
         /\ migrations[k].disk1 = migrations[k - 1].disk1
         /\ migrations[k].legacy1 = migrations[k - 1].legacy1

\* C21 witness: a second call was made after one that migrated groups and
\* assignments over an earlier project file
C21_Witness ==
  /\ Len(migrations) >= 2
  /\ migrations[1].returned
  /\ migrations[1].legacy0.groups # <<>>
  /\ DOMAIN migrations[1].legacy0.assignments # {}
  /\ migrations[1].disk0 = EarlierDisk
  /\ migrations[1].disk1 # EarlierDisk

\* C22: a call whose write failed leaves both legacy entries and the file
\* as they were and returns false; a call whose write succeeded has
\* cleared both entries and returns true; the entries change in no other
\* call
C22_ClearAfterSave ==
  \A k \in DOMAIN migrations :
    LET m == migrations[k]
    IN /\ m.failed => /\ m.legacy1 = m.legacy0
                      /\ m.disk1 = m.disk0
                      /\ ~m.returned
       /\ m.wrote => /\ m.legacy1 = NoLegacy
                     /\ m.disk1.saved
                     /\ m.returned
       /\ m.legacy1 # m.legacy0 => m.wrote
       /\ m.returned => m.wrote

\* C22 witness: the write of a first call failed, a second call migrated
\* the entries the first had left
C22_Witness ==
  /\ Len(migrations) >= 2
  /\ migrations[1].failed
  /\ migrations[2].returned
  /\ migrations[2].legacy0 = migrations[1].legacy0
  /\ legacy = NoLegacy

---------------------------------------------------------------------------
(* The tree: GitFileGroupsProvider.getParent *)

\* lines 1287-1302 for the names still to visit: the first name the file
\* node belongs to, the sentinel when the file has no assignment
RECURSIVE parentAmong(_, _)
parentAmong(names, assigned) ==
  IF names = <<>> THEN Undefined
  ELSE IF Head(names) = UNGROUPED /\ ~Truthy(assigned) THEN Head(names)
  ELSE IF assigned = Head(names) THEN Head(names)
  ELSE parentAmong(Tail(names), assigned)

\* getParent of the file node of resourceUri: the name of the group node
\* returned, or Undefined
getParent(resourceUri) ==
  LET key == toAssignmentKey(resourceUri)
      assigned == IF Truthy(key) THEN Get(assignments, key) ELSE Undefined
  IN IF ~Truthy(resourceUri.fsPath) THEN Undefined
     ELSE parentAmong(<<UNGROUPED>> \o groups, assigned)

---------------------------------------------------------------------------
(* Further properties of the store, the partition and the migration *)

\* the write of the latest call failed
lastSaveFailed ==
  \E i \in DOMAIN last.effects : last.effects[i] = "save failed"

\* C36: after a call of addGroup, renameGroup, deleteGroup or
\* moveFilesToGroup whose save failed, groups and assignments are what they
\* were before the call and agree with the file
C36_FailedSaveRollsBack ==
  (lastMutator /\ lastSaveFailed)
    => /\ groups = last.call.groups0
       /\ assignments = last.call.assignments0
       /\ file = IF file.exists THEN savedFile(groups, assignments) ELSE NoFile

\* the entries of the partition, ungrouped and grouped, one after another
RECURSIVE concatBuckets(_)
concatBuckets(S) ==
  IF S = {} THEN <<>>
  ELSE LET g == CHOOSE x \in S : TRUE
       IN part.grouped[g] \o concatBuckets(S \ {g})

\* C37: no file is in the partition twice, whether or not it is both in
\* the working tree changes and in the index changes
C37_FileOnce ==
  (part.computed /\ ~part.threw)
    => LET all == part.ungrouped \o concatBuckets(DOMAIN part.grouped)
       IN \A i, j \in DOMAIN all :
            all[i].resourceUri.fsPath = all[j].resourceUri.fsPath => i = j

\* C38: getParent names the bucket getGroupedFiles puts the file in: the
\* sentinel for a file in ungrouped, the group for a file in grouped[group]
C38_ParentIsBucket ==
  (part.computed /\ ~part.threw)
    => /\ \A i \in DOMAIN part.ungrouped :
            getParent(part.ungrouped[i].resourceUri) = UNGROUPED
       /\ \A g \in DOMAIN part.grouped :
            \A i \in DOMAIN part.grouped[g] :
              getParent(part.grouped[g][i].resourceUri) = g

\* C39: after a call that returned true loadData returns the legacy groups
\* and the legacy assignments under their absolute paths
C39_MigrationPreserves ==
  \A k \in DOMAIN migrations :
    migrations[k].returned
      => /\ loadData(migrations[k].disk1).groups = migrations[k].legacy0.groups
         /\ loadData(migrations[k].disk1).assignments
              = migrations[k].legacy0.assignments

\* C40: no step of a commitGroup run changes the groups, the assignments
\* or the project file, whether the run ends at the guard, at the prompt,
\* in a failed commit or in a commit
C40_CommitKeepsGrouping ==
  [][CommitNext => UNCHANGED <<groups, assignments, file, disk>>]_vars

\* C40 witness: a run has committed a file that has an assignment
C40_Witness ==
  /\ runs[TheRun].pc = "done"
  /\ \E k \in committed(TheRun) :
       runs[TheRun].trace[k].staged \cap DOMAIN assignments # {}
  /\ bucketFiles(TheRun) \cap DOMAIN assignments # {}

\* C35: the links and the logged features that loadConfig read from the
\* project file before groups and assignments were saved are what
\* loadConfig reads from it after the save
C35_SaveKeepsSettings ==
  (config.done /\ ~config.saved /\ disk.saved) =>
    /\ linkDefinitions(loadConfig(disk)) = linkDefinitions(config.data)
    /\ loggedFeatures(loadConfig(disk)) = loggedFeatures(config.data)

---------------------------------------------------------------------------
(* Specification of a reassignment during a pending commit: one commitGroup *)
(* invocation whose git calls all succeed, and moveFilesToGroup called      *)
(* while the invocation awaits its input box                                *)

\* a store of two groups, every changed file either staged or not
PromptInit ==
  /\ groups = <<NameB, NameF>>
  /\ assignments \in UNION {[S -> {NameB, NameF}] : S \in SUBSET Files}
  /\ file = savedFile(groups, assignments)
  /\ last = NoCall
  /\ disk = NoDisk
  /\ loaded = NoLoad
  /\ workspaceRoot = RepoRoot
  /\ gitExtension = TRUE
  /\ repositories = <<RepoRoot>>
  /\ indexChanges \in SUBSET Files
  /\ workingTreeChanges = Files \ indexChanges
  /\ runs = [r \in RunIds |-> IdleRun]
  /\ part = NoPart
  /\ lookup = IdleLookup
  /\ legacy = NoLegacy
  /\ migrations = <<>>
  /\ config = NoConfig
  /\ pending = NoWrites
  /\ boot = Booted

\* what handleDrop hands to moveFilesToGroup: the uris of the dragged files
DroppedUris ==
  {<<UriFile(FileA)>>, <<UriFile(FileB)>>, <<UriFile(FileA), UriFile(FileB)>>}

\* MoveAtPrompt that takes the moved files out of the index as well
MoveAtPrompt_restaging ==
  /\ runs[TheRun].pc = "prompt"
  /\ \E uris \in DroppedUris, groupName \in CommitNames :
       /\ MoveFilesToGroup(uris, groupName, TRUE)
       /\ indexChanges' = indexChanges \ {uris[i].fsPath : i \in DOMAIN uris}
       /\ UNCHANGED <<workspaceRoot, gitExtension, repositories, workingTreeChanges,
                      runs, part, disk, loaded, restVars>>

\* a drop on a group node while showInputBox (line 1188) is pending:
\* moveFilesToGroup runs as at any other time, it reads and writes no
\* state of the pending invocation
MoveAtPrompt ==
  /\ runs[TheRun].pc = "prompt"
  /\ \E uris \in DroppedUris, groupName \in CommitNames :
       MoveFilesToGroup(uris, groupName, TRUE) /\ StoreFrame

PromptNext ==
  \/ CommitStartCall
  \/ CommitGroupUnstage(TheRun, "fsPath")
  \/ CommitGroupStage(TheRun, TRUE)
  \/ CommitPromptStep
  \/ CommitGroupCancel(TheRun, TRUE)
  \/ CommitGroupCommit(TheRun, TRUE)
  \/ MoveAtPrompt

SpecPrompt == PromptInit /\ [][PromptNext]_vars

\* the latest store call was a moveFilesToGroup that got past its checks
lastMoveApplied ==
  /\ last.call.op = "moveFilesToGroup"
  /\ Truthy(trim(last.call.a))
  /\ isKnownGroup(last.call.groups0, trim(last.call.a))

\* C31: a moveFilesToGroup called while the invocation awaits its input
\* box is applied at once, the files the invocation staged stay staged,
\* and the commit is made with the target files computed at lines
\* 1128-1132 staged, whatever the assignments are by then
C31_MoveDuringPrompt ==
  /\ lastMoveApplied =>
       /\ assignments = applyMove(last.call.assignments0, last.call.uris,
                                  trim(last.call.a), trim(last.call.a) = UNGROUPED)
       /\ file = savedFile(groups, assignments)
  /\ runs[TheRun].pc \in {"prompt", "commit"} =>
       indexChanges = elems(runs[TheRun].targets)
  /\ \A k \in committed(TheRun) :
       runs[TheRun].trace[k].staged = elems(runs[TheRun].targets)

\* C31 witness: a commit was made after a move at the prompt had taken a
\* staged file out of the group, so that the files committed are not the
\* files of the group at commit time
C31_Witness ==
  /\ runs[TheRun].pc = "done"
  /\ committed(TheRun) # {}
  /\ lastMoveApplied
  /\ assignments # last.call.assignments0
  /\ \E k \in committed(TheRun) :
       /\ runs[TheRun].trace[k].staged # bucketFiles(TheRun)
       /\ runs[TheRun].trace[k].staged # {}

---------------------------------------------------------------------------
(* Specification of two overlapping commits: commitGroup invoked for group *)
(* B and, before that invocation has ended, for group F; every git call    *)
(* succeeds.  The two invocations interleave at their awaits: each revert, *)
(* the add, the input box and the commit.                                  *)

\* the group each invocation is made for
GroupOfRun == <<NameB, NameF>>

\* an invocation is made once, for its group
OverlapStart(r) ==
  /\ runs[r].pc = "idle"
  /\ CommitGroupStart(r, GroupOfRun[r])

OverlapNext ==
  \E r \in RunIds :
    \/ OverlapStart(r)
    \/ CommitGroupUnstage(r, "fsPath")
    \/ CommitGroupStage(r, TRUE)
    \/ \E message \in Messages : CommitGroupPrompt(r, message)
    \/ CommitGroupCancel(r, TRUE)
    \/ CommitGroupCommit(r, TRUE)

SpecOverlap == PromptInit /\ [][OverlapNext]_vars

\* the files assigned to the group of run r
filesOfGroup(r) == {f \in Files : Get(assignments, f) = GroupOfRun[r]}

\* C32: every commit of an invocation is made while the index holds the
\* target files of that invocation and no file of the other group
C32_OwnFilesStaged ==
  \A r \in RunIds : \A k \in committed(r) :
    /\ runs[r].trace[k].staged = elems(runs[r].targets)
    /\ \A q \in RunIds \ {r} : runs[r].trace[k].staged \cap filesOfGroup(q) = {}

---------------------------------------------------------------------------
(* Specification of the asynchronous store: the constructor returns while  *)
(* initializeStorage awaits its first read of the project file, addGroup   *)
(* returns to the event loop while its writeFile is in flight, and nothing *)
(* orders the completions of the reads and writes in flight                *)

MaxWrites == 3

\* what an earlier session may have left: no project file, or the file
\* saveData wrote for its groups and assignments
AsyncStores ==
  {[exists |-> FALSE, g |-> <<>>, a |-> EmptyMap],
   [exists |-> TRUE, g |-> <<NameF>>, a |-> EmptyMap],
   [exists |-> TRUE, g |-> <<NameF>>, a |-> [k \in {FileB} |-> NameF]],
   [exists |-> TRUE, g |-> <<NameB, NameF>>, a |-> [k \in {FileA} |-> NameB]]}

\* lines 799-800 and 864-872: the fields hold [] and {} and, nothing
\* being in globalState, initializeStorage awaits readFile (line 1720)
AsyncInit ==
  /\ groups = <<>>
  /\ assignments = EmptyMap
  /\ \E st \in AsyncStores :
       /\ disk = IF st.exists THEN saveData(st.g, st.a) ELSE NoDisk
       /\ file = IF st.exists THEN savedFile(st.g, st.a) ELSE NoFile
       /\ boot = [pc |-> "reading", persisted |-> st.g, early |-> {}]
  /\ last = NoCall
  /\ loaded = NoLoad
  /\ workspaceRoot = RepoRoot
  /\ gitExtension = TRUE
  /\ repositories = <<RepoRoot>>
  /\ workingTreeChanges = {}
  /\ indexChanges = {}
  /\ runs = [r \in RunIds |-> IdleRun]
  /\ part = NoPart
  /\ lookup = IdleLookup
  /\ legacy = NoLegacy
  /\ migrations = <<>>
  /\ config = NoConfig
  /\ pending = NoWrites

\* lines 913-918 and 1736-1743: saveData takes this.groups and
\* this.assignments as they are, makes the text and calls writeFile, with
\* no regard to a writeFile that has not completed
issueWrite(p, g, a) ==
  [inflight |-> p.inflight \cup {[seq |-> p.issued + 1, g |-> g, a |-> a]},
   issued |-> p.issued + 1,
   overlapped |-> p.overlapped \/ p.inflight # {}]

\* addGroup, lines 1034-1045: up to the await of the write
AddGroupBegin(name) ==
  LET trimmed == trim(name)
      call == Call("addGroup", name, <<>>, <<>>)
      g == sortByLocale(Append(groups, trimmed))
  IN /\ pending.issued < MaxWrites
     /\ IF ~Truthy(trimmed) \/ includes(groups, trimmed)
        THEN NoOp(call) /\ UNCHANGED <<disk, pending, boot>>
        ELSE /\ groups' = g
             /\ pending' = issueWrite(pending, g, assignments)
             /\ boot' = IF boot.pc = "reading"
                        THEN [boot EXCEPT !.early = @ \cup {trimmed}]
                        ELSE boot
             /\ last' = [call |-> call, effects |-> <<>>, failures |-> last.failures]
             /\ UNCHANGED <<assignments, file, disk>>
     /\ UNCHANGED <<loaded, gitVars, runs, part, lookup, legacy, migrations, config>>

\* a writeFile completes (line 1743), addGroup goes on to refresh (line 1046)
WriteLands(w) ==
  /\ w \in pending.inflight
  /\ disk' = saveData(w.g, w.a)
  /\ file' = savedFile(w.g, w.a)
  /\ pending' = [pending EXCEPT !.inflight = @ \ {w}]
  /\ last' = [last EXCEPT !.effects = @ \o <<"save", "refresh">>]
  /\ UNCHANGED <<groups, assignments, loaded, gitVars, runs, part, lookup, legacy,
                 migrations, config, boot>>

\* the first readFile completes: ProjectStorage.loadData returns and the
\* provider takes what it returned (lines 898-900)
InitLoadData ==
  /\ boot.pc = "reading"
  /\ groups' = loadData(disk).groups
  /\ assignments' = loadData(disk).assignments
  /\ loaded' = [done |-> TRUE, raised |-> loadData(disk).raised,
                groups |-> loadData(disk).groups,
                assignments |-> loadData(disk).assignments]
  /\ boot' = [boot EXCEPT !.pc = "config"]
  /\ UNCHANGED <<file, last, disk, gitVars, runs, part, lookup, legacy, migrations,
                 config, pending>>

\* the readFile of loadConfig completes (lines 903-910), initializeStorage
\* returns and the constructor's callback refreshes (line 870)
InitLoadConfig ==
  /\ boot.pc = "config"
  /\ config' = [done |-> TRUE, saved |-> disk.saved, data |-> loadConfig(disk)]
  /\ boot' = [boot EXCEPT !.pc = "done"]
  /\ UNCHANGED <<storeVars, gitVars, runs, part, lookup, legacy, migrations, pending>>

AsyncNext ==
  \/ \E name \in {NameB, NameF, <<>>} : AddGroupBegin(name)
  \/ \E w \in pending.inflight : WriteLands(w)
  \/ InitLoadData
  \/ InitLoadConfig

SpecAsync == AsyncInit /\ [][AsyncNext]_vars

\* initializeStorage has returned and no write is in flight
settled == boot.pc = "done" /\ pending.inflight = {}

\* C33: a group was added while the first read of the file was in flight,
\* by the only mutation made; once everything has completed, memory and
\* file agree and hold the groups persisted before and the group added
C33_EarlyMutationKept ==
  (settled /\ boot.early # {} /\ pending.issued = 1) =>
    /\ loadData(disk).groups = groups
    /\ loadData(disk).assignments = assignments
    /\ \A i \in DOMAIN boot.persisted : includes(groups, boot.persisted[i])
    /\ \A name \in boot.early : includes(groups, name)

\* C34: two writes were in flight at the same time, none of them issued
\* before the initial load; once all have completed the file holds the
\* groups and assignments that memory holds
C34_LaterWriteWins ==
  (settled /\ pending.overlapped /\ boot.early = {}) =>
    /\ disk = saveData(groups, assignments)
    /\ file = savedFile(groups, assignments)

=============================================================================
